---------------------------- MODULE Spec2Model ----------------------------
(***************************************************************************)
(* Stage 1 of balena-migrate on a Raspberry Pi host: the validation        *)
(* pipeline LinuxMigrator::try_init, the boot manager's can_migrate and    *)
(* setup (RaspiBootManager), and the stage-2 descriptor writer             *)
(* Stage2Config::write_stage2_cfg, as one run of LinuxMigrator::migrate.   *)
(*                                                                         *)
(* A file system is a function from the names of the files that exist to   *)
(* their contents; a content is a sequence of strings (the lines of a text *)
(* file, the tokens of the one-line cmdline.txt, one opaque string for a   *)
(* binary file).  Answers of the host (command results, I/O outcomes) are  *)
(* drawn with \E at the step that asks for them.                           *)
(***************************************************************************)
EXTENDS Integers, Sequences, FiniteSets, TLC

(***************************************************************************)
(* Bounds of the model.                                                    *)
(***************************************************************************)
\* unix seconds the clock may show when setup takes its timestamp: 1..MaxTime
MaxTime == 2
\* the most words of a cmdline.txt a function is applied to
MaxWords == 3
\* the most lines of an original config.txt a function is applied to
MaxLines == 2
\* the most earlier runs of setup a config.txt went through
MaxRuns == 2
\* the most characters of the data line of lsblk's output
MaxChars == 4
\* the most partitions of the drive of a Windows host
MaxParts == 2
\* the size of the OS image of the hosts looked at, in bytes
MemStep == 4096
\* the size of the migration kernel and of the initramfs, in bytes
FileStep == 1000

(***************************************************************************)
(* Program constants (raspi_boot_manager.rs lines 29-43).                  *)
(***************************************************************************)
RPI_MIG_KERNEL_NAME == "balena.zImage"
RPI_MIG_INITRD_NAME == "balena.initramfs.cpio.gz"
RPI_CONFIG_TXT == "config.txt"
RPI_CMDLINE_TXT == "cmdline.txt"
RPI3_DTB_FILES == <<"bcm2710-rpi-3-b.dtb", "bcm2710-rpi-3-b-plus.dtb">>
RPI4_64_DTB_FILES == <<"bcm2711-rpi-4-b.dtb">>
BALENA_FILE_TAG == "## created by balena-migrate"

BootTypes == {"Raspi", "Raspi64"}

\* RaspiBootManager::new: the DTB set of the boot type
DtbFiles(bt) == IF bt = "Raspi64" THEN RPI4_64_DTB_FILES ELSE RPI3_DTB_FILES

Range(s) == {s[i] : i \in DOMAIN s}

AllDtbNames == Range(RPI3_DTB_FILES) \cup Range(RPI4_64_DTB_FILES)

(***************************************************************************)
(* File-system helpers.                                                    *)
(***************************************************************************)
file_exists(fs, name) == name \in DOMAIN fs

\* the file `name` holding `content` (created or replaced)
PutFile(fs, name, content) ==
    [f \in DOMAIN fs \cup {name} |-> IF f = name THEN content ELSE fs[f]]

\* what a copy that broke off leaves at its target
PartialContent == <<"#partial">>

\* std::fs::copy(from, to): outcome "ok" copies the whole content; a failed
\* copy leaves the target untouched ("err") or truncated ("err_partial").
\* A copy whose source is missing fails without touching the target.
copy(fs, srcContent, to, outcome) ==
    CASE outcome = "ok" -> PutFile(fs, to, srcContent)
      [] outcome = "err_partial" -> PutFile(fs, to, PartialContent)
      [] OTHER -> fs

CopyOutcomes == {"ok", "err", "err_partial"}

\* contents of the files in the work directory
WorkContent(name) == <<"work:" \o name>>

(***************************************************************************)
(* config.txt: the line classes of the four regular expressions of setup   *)
(* (lines 318-321), as tables over the lines the model's inputs use.       *)
(***************************************************************************)
NEW_UART_LINE == "enable_uart=1"
NEW_INITRD_LINE == "initramfs " \o RPI_MIG_INITRD_NAME \o " followkernel"
NEW_KERNEL_LINE == "kernel " \o RPI_MIG_KERNEL_NAME
NEW_64BIT_LINE == "arm_64bit=1"

\* ^\s*initramfs
initrd_re(line) == line \in {"initramfs foo followkernel", "  initramfs bar", NEW_INITRD_LINE}
\* ^\s*kernel
kernel_re(line) == line \in {"kernel=kernel7.img", NEW_KERNEL_LINE}
\* ^\s*enable_uart
uart_re(line) == line \in {"enable_uart=0", NEW_UART_LINE}
\* ^\s*arm_64bit
sixty4_bits_re(line) == line \in {"arm_64bit=0", NEW_64BIT_LINE}

\* is_balena_file: the file carries the marker line
is_balena_file(content) == \E i \in DOMAIN content : content[i] = BALENA_FILE_TAG

\* ConfigLine with the kernel lines left as they are
ConfigLineKeepsKernel(line, bt) ==
    IF initrd_re(line) \/ uart_re(line)
    THEN "# " \o line
    ELSE IF bt = "Raspi64" /\ sixty4_bits_re(line)
         THEN "# " \o line
         ELSE line

\* one line of config.txt as setup re-emits it (lines 338-351)
ConfigLine(line, bt) ==
    IF initrd_re(line) \/ kernel_re(line) \/ uart_re(line)
    THEN "# " \o line
    ELSE IF bt = "Raspi64" /\ sixty4_bits_re(line)
         THEN "# " \o line
         ELSE line

\* config_str as built by setup (lines 323-369)
ConfigStr(content, balena_cfg, bt) ==
    (IF ~balena_cfg THEN <<BALENA_FILE_TAG>> ELSE <<>>)
    \o [i \in DOMAIN content |-> ConfigLine(content[i], bt)]
    \o (IF bt = "Raspi64" THEN <<NEW_64BIT_LINE>> ELSE <<>>)
    \o <<NEW_UART_LINE, NEW_INITRD_LINE, NEW_KERNEL_LINE>>

(***************************************************************************)
(* cmdline.txt, as the sequence of its words (maximal runs of characters   *)
(* that are not whitespace) and of the whitespace characters between them. *)
(***************************************************************************)
KERNEL_CMD == "/dev/mmcblk0p1"
FS_TYPE == "vfat"
\* cmd_fragment without its leading and trailing blank (lines 401, 417)
ROOT_FRAGMENT == "root=" \o KERNEL_CMD
ROOTFS_FRAGMENT == "rootfstype=" \o FS_TYPE
\* " console=tty1 console=serial0,115200" (line 437)
NEW_CONSOLE == <<" ", "console=tty1", " ", "console=serial0,115200">>

IsSpace(a) == a \in {" ", "\n"}

\* the part of a word that precedes the match the expressions find in it: the
\* expressions are not anchored, so root=\S+ matches inside nfsroot=...
MatchPrefix(t) ==
    IF t \in {"nfsroot=10.0.0.1:/srv/pi", "nfs" \o ROOT_FRAGMENT} THEN "nfs" ELSE ""

\* the regular expression (root=\S+, rootfstype=\S+ or console=\S+), if any,
\* that finds a match in a word
TokClass(t) ==
    CASE t \in {"root=/dev/mmcblk0p2", "root=PARTUUID=1f2e-02", ROOT_FRAGMENT,
                "nfsroot=10.0.0.1:/srv/pi", "nfs" \o ROOT_FRAGMENT} -> "root"
      [] t \in {"rootfstype=ext4", ROOTFS_FRAGMENT} -> "rootfstype"
      [] t \in {"console=serial0,115200", "console=tty1", "console=ttyAMA0"} -> "console"
      [] OTHER -> "other"

RECURSIVE FirstIdx(_, _, _)
\* index of the first word of toks, from i on, in which cls matches; 0 if there is none
FirstIdx(toks, cls, i) ==
    IF i > Len(toks) THEN 0
    ELSE IF TokClass(toks[i]) = cls THEN i ELSE FirstIdx(toks, cls, i + 1)

RECURSIVE SpaceEnd(_, _)
\* the index of the last of the whitespace characters that follow position i: (\s+|$)
SpaceEnd(toks, i) ==
    IF i < Len(toks) /\ IsSpace(toks[i + 1]) THEN SpaceEnd(toks, i + 1) ELSE i

\* what a match in word t is replaced by: the part of t before the match stays
Replacement(t, rep) ==
    IF MatchPrefix(t) = "" THEN rep
    ELSE IF IsSpace(Head(rep)) THEN <<MatchPrefix(t)>> \o rep
    ELSE <<MatchPrefix(t) \o Head(rep)>> \o Tail(rep)

\* Regex::replace: the first match of cls=\S+(\s+|$) replaced by rep
ReplaceFirst(toks, cls, rep) ==
    LET i == FirstIdx(toks, cls, 1) IN
    IF i = 0 THEN toks
    ELSE SubSeq(toks, 1, i - 1) \o Replacement(toks[i], rep)
         \o SubSeq(toks, SpaceEnd(toks, i) + 1, Len(toks))

RECURSIVE ReplaceAll(_, _, _)
\* Regex::replace_all: every match of cls=\S+(\s+|$) replaced by rep
ReplaceAll(toks, cls, rep) ==
    LET i == FirstIdx(toks, cls, 1) IN
    IF i = 0 THEN toks
    ELSE SubSeq(toks, 1, i - 1) \o Replacement(toks[i], rep)
         \o ReplaceAll(SubSeq(toks, SpaceEnd(toks, i) + 1, Len(toks)), cls, rep)

\* String::contains(frag), frag holding no whitespace
Contains(toks, frag) ==
    \E j \in DOMAIN toks : toks[j] = frag \/ toks[j] = "nfs" \o frag

\* Regex::replace (first match only) followed by the contains / push_str test
\* (lines 404-412, 419-426)
ReplaceOrAppend(toks, cls, frag) ==
    LET replaced == ReplaceFirst(toks, cls, <<frag, " ">>) IN
    IF Contains(replaced, frag) THEN replaced ELSE replaced \o <<" ", frag>>

RECURSIVE trim_end(_)
\* str::trim_end (line 397)
trim_end(toks) ==
    IF toks # <<>> /\ IsSpace(toks[Len(toks)])
    THEN trim_end(SubSeq(toks, 1, Len(toks) - 1))
    ELSE toks

\* ConsoleRemoved with replace in the place of replace_all
ConsoleRemovedFirstOnly(toks) == ReplaceFirst(toks, "console", <<" ">>)

\* every console=... replaced by a blank (lines 431-436)
ConsoleRemoved(toks) == ReplaceAll(toks, "console", <<" ">>)

\* cmdline_str as built by setup from the file's text (lines 395-448)
CmdlineStr(toks, kernel_opts) ==
    LET cmdline == trim_end(toks)
        withRoot == ReplaceOrAppend(cmdline, "root", ROOT_FRAGMENT)
        withFs == ReplaceOrAppend(withRoot, "rootfstype", ROOTFS_FRAGMENT)
    IN  ConsoleRemoved(withFs) \o NEW_CONSOLE
        \o (IF kernel_opts # <<>> THEN <<" ">> \o kernel_opts ELSE <<>>)
        \o <<"\n">>

\* the caller's kernel_opts: none, one option, one option and a line end
KernelOpts == {<<>>, <<"debug">>, <<"debug", "\n">>}

(***************************************************************************)
(* The stage-2 descriptor (stage2_config.rs).  The text of a value is the  *)
(* sequence of its pieces: a single quote "'", or a run of characters that *)
(* holds none.  A line of the file is the pair of what precedes the value  *)
(* (indentation, key, colon, blanks) and the value's text.                 *)
(***************************************************************************)
DeviceSlug(bt) == IF bt = "Raspi64" THEN "raspberrypi4-64" ELSE "raspberrypi3"

FailModes == {"Reboot", "Rescue", "Halt"}
\* FailMode::to_string and FailMode::from_str, FailMode::get_default
FailModeToString(m) == <<m>>
FailModeDefault == "Reboot"
FailModeFromStr(text) ==
    IF Len(text) = 1 /\ text[1] \in FailModes THEN text[1] ELSE FailModeDefault

\* format!("'{}'", v): the value between single quotes, as it is
Quoted(v) == <<"'">> \o v \o <<"'">>

RECURSIVE BackupLines(_)
\* the two lines write_stage2_cfg emits per backup entry (lines 87-90)
BackupLines(bckups) ==
    IF bckups = <<>> THEN <<>>
    ELSE << <<"  - orig:      ", Quoted(Head(bckups)[1])>>,
            <<"    bckup:     ", Quoted(Head(bckups)[2])>> >>
         \o BackupLines(Tail(bckups))

\* cfg_str as built by write_stage2_cfg from the fields of mig_info (lines 47-90)
CfgStr(d) ==
    << <<"# Balena Migrate Stage2 Config", <<>> >>,
       <<"efi_boot: ", <<IF d.efi_boot THEN "true" ELSE "false">> >>,
       <<"device_slug: ", Quoted(d.device_slug)>>,
       <<"fail_mode: ", Quoted(FailModeToString(d.fail_mode))>>,
       <<"balena_image: ", Quoted(d.balena_image)>>,
       <<"balena_config: ", Quoted(d.balena_config)>>,
       <<"root_device: ", Quoted(d.root_device)>>,
       <<"boot_device: ", Quoted(d.boot_device)>>,
       <<"work_dir: ", Quoted(d.work_dir)>>,
       <<"# backed up files in boot config", <<>> >>,
       <<"backup_config:", <<>> >> >>
    \o BackupLines(d.bckup_cfg)

\* the fields write_stage2_cfg reads from mig_info on a Raspberry Pi whose
\* setup recorded the backups bckups
MigInfo(bt, bckups) ==
    [efi_boot |-> FALSE,
     device_slug |-> <<DeviceSlug(bt)>>,
     fail_mode |-> "Reboot",
     balena_image |-> <<"image.gz">>,
     balena_config |-> <<"config.json">>,
     root_device |-> <<"/dev/mmcblk0p2">>,
     boot_device |-> <<KERNEL_CMD>>,
     work_dir |-> <<"/home/pi/migrate">>,
     bckup_cfg |-> [i \in DOMAIN bckups |-> << <<bckups[i][1]>>, <<bckups[i][2]>> >>]]

Stage2CfgStr(bt, bckups) == CfgStr(MigInfo(bt, bckups))

\* synced: the file's content has reached the disk, not only the kernel's cache
NoFile == [exists |-> FALSE, lines |-> <<>>, synced |-> TRUE]
\* a descriptor left at the final path by an earlier run
StaleFile ==
    [exists |-> TRUE,
     lines |-> << <<"# Balena Migrate Stage2 Config", <<>> >>, <<"efi_boot: ", <<"false">> >> >>,
     synced |-> TRUE]

(***************************************************************************)
(* Stage2Config::from_config (stage2_config.rs lines 111-163).             *)
(***************************************************************************)
ScanError == [ok |-> FALSE]

RECURSIVE ScanQuoted(_, _)
\* the YAML scanner inside a single-quoted scalar: rest is the text after the
\* opening quote, acc the value read so far.  Two quotes in a row stand for one
\* quote; one quote ends the scalar, and nothing may follow it.
ScanQuoted(rest, acc) ==
    IF rest = <<>> THEN ScanError
    ELSE IF Head(rest) # "'" THEN ScanQuoted(Tail(rest), Append(acc, Head(rest)))
    ELSE IF Len(rest) >= 2 /\ rest[2] = "'"
         THEN ScanQuoted(SubSeq(rest, 3, Len(rest)), Append(acc, "'"))
    ELSE IF Len(rest) = 1 THEN [ok |-> TRUE, val |-> acc]
    ELSE ScanError

\* YamlLoader::load_from_str on the text of one value
ParseScalar(text) ==
    IF text # <<>> /\ Head(text) = "'" THEN ScanQuoted(Tail(text), <<>>)
    ELSE [ok |-> TRUE, val |-> text]

Digits == {"0", "1", "2", "3", "4", "5", "6", "7", "8", "9"}

\* the type of the Yaml value the loader makes of the text of a scalar
YamlType(text) ==
    IF text = <<>> THEN "Null"
    ELSE IF Head(text) = "'" THEN "String"
    ELSE IF text \in {<<"true">>, <<"false">>} THEN "Boolean"
    ELSE IF Len(text) = 1 /\ text[1] \in Digits THEN "Integer"
    ELSE "String"

\* the line that begins a YAML document
DOC_START == <<"---", <<>> >>

IsComment(line) ==
    line[1] \in {"# Balena Migrate Stage2 Config", "# backed up files in boot config"}

\* the lines that make up a document
IsContent(line) == line # DOC_START /\ ~IsComment(line)

\* yaml_cfg.len(): a document for every document start, and one for content
\* that precedes the first of them
DocCount(lines) ==
    LET starts == {i \in DOMAIN lines : lines[i] = DOC_START}
    IN  Cardinality(starts)
        + (IF \E i \in DOMAIN lines :
                 IsContent(lines[i]) /\ \A j \in starts : i < j
           THEN 1 ELSE 0)

\* yaml_cfg.get(0): the lines of the first document
FirstDoc(lines) ==
    LET starts == {i \in DOMAIN lines : lines[i] = DOC_START}
        head == {i \in DOMAIN lines : IsContent(lines[i]) /\ \A j \in starts : i < j}
        first == CHOOSE i \in starts : \A j \in starts : i <= j
        later == {j \in starts : j > first}
        stop == IF later = {} THEN Len(lines) + 1
                ELSE CHOOSE j \in later : \A k \in later : j <= k
    IN  IF starts = {} THEN lines
        ELSE IF head # {} THEN SubSeq(lines, 1, first - 1)
        ELSE SubSeq(lines, first + 1, stop - 1)

\* UnexpectedDocs that accepts any file with a document
UnexpectedDocsNone(n) == n = 0

\* yaml_cfg.len() != 1 (line 126)
UnexpectedDocs(n) == n # 1

\* get_yaml_val: the value under the key in the document's hash, None when
\* the hash has no such key
GetYaml(lines, key) ==
    IF \A i \in DOMAIN lines : lines[i][1] # key THEN [res |-> "none"]
    ELSE LET text == lines[CHOOSE i \in DOMAIN lines :
                              /\ lines[i][1] = key
                              /\ \A j \in 1 .. (i - 1) : lines[j][1] # key][2]
         IN  [res |-> "some", type |-> YamlType(text), val |-> ParseScalar(text).val]

\* get_yaml_str and get_yaml_bool: an error when the value is of another type
GetYamlTyped(lines, key, type) ==
    LET r == GetYaml(lines, key)
    IN  IF r.res = "some" /\ r.type # type THEN [res |-> "err"] ELSE r

\* init_fail_mode (lines 165-193): the mode named by the string under
\* fail_mode; the default when the key is missing, when its value is no
\* string and when the string names no mode
init_fail_mode(lines) ==
    LET r == GetYamlTyped(lines, "fail_mode: ", "String")
    IN  IF r.res = "some" THEN FailModeFromStr(r.val) ELSE FailModeDefault

RECURSIVE BackupEntries(_)
\* the (orig, bckup) pairs of the lines under backup_config (lines 141-150)
BackupEntries(lines) ==
    IF Len(lines) < 2 THEN <<>>
    ELSE << <<ParseScalar(lines[1][2]).val, ParseScalar(lines[2][2]).val>> >>
         \o BackupEntries(SubSeq(lines, 3, Len(lines)))

\* the position of the backup_config line
BackupConfigIdx(lines) == CHOOSE i \in DOMAIN lines : lines[i][1] = "backup_config:"

RECURSIVE EntryRun(_, _)
\* how many lines from position i on belong to the array under backup_config
EntryRun(lines, i) ==
    IF i <= Len(lines) /\ lines[i][1] \in {"  - orig:      ", "    bckup:     "}
    THEN 1 + EntryRun(lines, i + 1) ELSE 0

\* the keys from_config reads with `?.unwrap()`, in the order of the code
\* (lines 141, 153-160), with the type it asks for
FieldChecks ==
    << [key |-> "backup_config:", type |-> "any"],
       [key |-> "efi_boot: ", type |-> "Boolean"],
       [key |-> "root_device: ", type |-> "String"],
       [key |-> "boot_device: ", type |-> "String"],
       [key |-> "device_slug: ", type |-> "String"],
       [key |-> "balena_image: ", type |-> "String"],
       [key |-> "balena_config: ", type |-> "String"],
       [key |-> "work_dir: ", type |-> "String"] >>

\* how reading a key ends: `?` returns the error of a value of the wrong
\* type, unwrap() panics on the None of a key that is not there
FieldOutcome(lines, check) ==
    LET r == IF check.type = "any" THEN GetYaml(lines, check.key)
             ELSE GetYamlTyped(lines, check.key, check.type)
    IN  CASE r.res = "none" -> "panic"
          [] r.res = "err" -> "err"
          [] OTHER -> "ok"

FromConfigErr(e, panic) == [ok |-> FALSE, err |-> e, panic |-> panic]

from_config(lines) ==
    IF \E i \in DOMAIN lines : ~ParseScalar(lines[i][2]).ok
    THEN FromConfigErr("Upstream", FALSE)
    ELSE IF UnexpectedDocs(DocCount(lines)) THEN FromConfigErr("InvParam", FALSE)
    ELSE LET doc == FirstDoc(lines)
             bad == {i \in DOMAIN FieldChecks : FieldOutcome(doc, FieldChecks[i]) # "ok"}
             first == CHOOSE i \in bad : \A j \in bad : i <= j
         IN  IF bad # {}
             THEN FromConfigErr(FieldChecks[first].key,
                                FieldOutcome(doc, FieldChecks[first]) = "panic")
             ELSE
         [ok |-> TRUE,
          cfg |-> [efi_boot |-> GetYaml(doc, "efi_boot: ").val = <<"true">>,
                   fail_mode |-> init_fail_mode(doc),
                   root_device |-> GetYaml(doc, "root_device: ").val,
                   boot_device |-> GetYaml(doc, "boot_device: ").val,
                   device_slug |-> GetYaml(doc, "device_slug: ").val,
                   balena_image |-> GetYaml(doc, "balena_image: ").val,
                   balena_config |-> GetYaml(doc, "balena_config: ").val,
                   work_dir |-> GetYaml(doc, "work_dir: ").val,
                   bckup_cfg |->
                       BackupEntries(SubSeq(doc, BackupConfigIdx(doc) + 1,
                                            BackupConfigIdx(doc)
                                                + EntryRun(doc, BackupConfigIdx(doc) + 1)))]]

(***************************************************************************)
(* State.                                                                  *)
(***************************************************************************)
VARIABLES
    pc,               \* position of the run in migrate / try_init / setup / write_stage2_cfg
    err,              \* the error the run returned ("none" while there is none)
    mode,             \* config.migrate.mode, once migrate has read it
    boot,             \* the files under /boot
    stage2_cfg_file,  \* the file at STAGE2_CFG_FILE
    boot_type,        \* RaspiBootManager.boot_type, once the device is known
    bootmgr_path,     \* RaspiBootManager.bootmgr_path is Some
    system_time,      \* setup's timestamp (0 before it is taken)
    dtb_idx,          \* position of setup's loop over dtb_files
    boot_cfg_bckup,   \* setup's local list of (original, backup) names
    s2_cfg_bckup,     \* the backup list held by the stage-2 config builder
    balena_config,    \* setup's local: config.txt carries the marker
    config_str,       \* setup's local: the new config.txt
    cmdline_str,      \* setup's local: the new cmdline.txt
    restore_res,      \* what restore returned ("none" before it is called)
    \* history of the run, read by the properties only
    boot0,            \* /boot when the run started
    stage2_cfg_file0, \* the descriptor file when the run started
    check_failed,     \* some validation step found its condition violated
    setup_res,        \* "none", "running", "ok" or "err"
    written,          \* the files under /boot the run has written to
    backed_up,        \* originals whose backup copy completed before their first write
    digest,           \* per boot file the run copied or rewrote: the digest check's result
    s2_writes,        \* how often write_stage2_cfg was entered
    rebooted,         \* the reboot command was issued
    \* a function of the program applied on its own
    call,             \* the function and its arguments
    ret               \* what it returned

vars == <<pc, err, mode, boot, stage2_cfg_file, boot_type, bootmgr_path, system_time,
          dtb_idx, boot_cfg_bckup, s2_cfg_bckup, balena_config, config_str, cmdline_str,
          restore_res, boot0, stage2_cfg_file0, check_failed, setup_res, written,
          backed_up, digest, s2_writes, rebooted, call, ret>>

setup_locals == <<system_time, dtb_idx, boot_cfg_bckup, s2_cfg_bckup, balena_config,
                  config_str, cmdline_str>>
history == <<boot0, stage2_cfg_file0, check_failed, setup_res, written, backed_up,
             digest, s2_writes, rebooted>>

\* ret before the function has returned, and after it returned val
NotReturned == [done |-> FALSE]
Returned(val) == [done |-> TRUE, val |-> val]

(***************************************************************************)
(* Initial states: the /boot of a Raspberry Pi host before the run.        *)
(***************************************************************************)
ConfigInputs ==
    { <<"kernel=kernel7.img", "initramfs foo followkernel", "enable_uart=0">>,
      <<"dtparam=audio=on", "arm_64bit=0">>,
      \* the output of an earlier migration
      <<BALENA_FILE_TAG, "# kernel=kernel7.img", "dtparam=audio=on",
        NEW_UART_LINE, NEW_INITRD_LINE, NEW_KERNEL_LINE>> }

CmdlineInputs ==
    { <<"console=serial0,115200", " ", "console=tty1", " ", "root=/dev/mmcblk0p2", " ",
        "rootfstype=ext4", " ", "rootwait", "\n">>,
      <<"dwc_otg.lpm_enable=0", " ", "rootwait">> }

OldContent(name) == <<"old:" \o name>>

EmptyFs == [f \in {} |-> <<>>]

\* the file `name` with one of `contents`, or no such file
MaybeFile(name, contents) ==
    {EmptyFs} \cup {[f \in {name} |-> c] : c \in contents}

\* the union of two file systems with disjoint names
Merge(a, b) == [f \in DOMAIN a \cup DOMAIN b |-> IF f \in DOMAIN a THEN a[f] ELSE b[f]]

InitialBoots ==
    { Merge(Merge(Merge(d, cfg), cl), k) :
        d \in {[f \in S |-> OldContent(f)] : S \in SUBSET AllDtbNames},
        cfg \in MaybeFile(RPI_CONFIG_TXT, ConfigInputs),
        cl \in MaybeFile(RPI_CMDLINE_TXT, CmdlineInputs),
        k \in MaybeFile(RPI_MIG_KERNEL_NAME, {OldContent(RPI_MIG_KERNEL_NAME)}) }

\* setup's backup names (raspi_boot_manager.rs): of a DTB file (line 237)
DtbBackupFile(file, t) == file \o "-" \o ToString(t)

\* the name of config.txt's backup (line 294)
ConfigBackupFile(t) == RPI_CONFIG_TXT \o "." \o ToString(t)

\* CmdlineBackupFile built from config.txt's name
CmdlineBackupFileClash(t) == RPI_CONFIG_TXT \o "." \o ToString(t)

\* the name of cmdline.txt's backup (line 380)
CmdlineBackupFile(t) == RPI_CMDLINE_TXT \o "." \o ToString(t)

\* /boot of a Raspberry Pi 4 after an earlier run whose setup returned Ok at
\* second 1: the migration kernel, initramfs and DTB, the rewritten config.txt
\* and cmdline.txt, and the three backups that run made
EarlierRunBoot ==
    LET dtb == RPI4_64_DTB_FILES[1]
        cfg == <<"dtparam=audio=on", "arm_64bit=0">>
        cl == <<"dwc_otg.lpm_enable=0", " ", "rootwait">>
        names == {RPI_MIG_KERNEL_NAME, RPI_MIG_INITRD_NAME, dtb, DtbBackupFile(dtb, 1),
                  RPI_CONFIG_TXT, ConfigBackupFile(1), RPI_CMDLINE_TXT,
                  CmdlineBackupFile(1)}
    IN  [f \in names |->
            CASE f = DtbBackupFile(dtb, 1) -> OldContent(dtb)
              [] f = RPI_CONFIG_TXT -> ConfigStr(cfg, FALSE, "Raspi64")
              [] f = ConfigBackupFile(1) -> cfg
              [] f = RPI_CMDLINE_TXT -> CmdlineStr(cl, <<>>)
              [] f = CmdlineBackupFile(1) -> cl
              [] OTHER -> WorkContent(f)]

\* the files setup copies or rewrites in place
BootTargets ==
    {RPI_MIG_KERNEL_NAME, RPI_MIG_INITRD_NAME, RPI_CONFIG_TXT, RPI_CMDLINE_TXT}
    \cup AllDtbNames

Init ==
    /\ pc = "ensure_cmds"
    /\ err = "none"
    /\ mode = "none"
    /\ boot \in InitialBoots \cup {EarlierRunBoot}
    /\ stage2_cfg_file \in {NoFile, StaleFile}
    /\ boot_type = "none"
    /\ bootmgr_path = FALSE
    /\ system_time = 0
    /\ dtb_idx = 0
    /\ boot_cfg_bckup = <<>>
    /\ s2_cfg_bckup = <<>>
    /\ balena_config = FALSE
    /\ config_str = <<>>
    /\ cmdline_str = <<>>
    /\ restore_res = "none"
    /\ boot0 = boot
    /\ stage2_cfg_file0 = stage2_cfg_file
    /\ check_failed = FALSE
    /\ setup_res = "none"
    /\ written = {}
    /\ backed_up = {}
    /\ digest = [f \in BootTargets |-> "none"]
    /\ s2_writes = 0
    /\ rebooted = FALSE
    /\ call = [fn |-> "migrate"]
    /\ ret = NotReturned

(***************************************************************************)
(* LinuxMigrator::try_init (linux.rs lines 98-328): the validation steps   *)
(* in the order of the code.  Each asks the host and returns its error     *)
(* when the answer is not the required one.                                *)
(***************************************************************************)
\* TryInitChecks with the privilege asked for before the commands are looked up
TryInitChecksAdminFirst ==
    <<"is_admin", "ensure_cmds", "os_name", "os_arch", "can_migrate", "disk_info",
      "min_disk_size", "kernel_file", "initrd_file", "boot_space", "os_image",
      "mem_info", "balena_cfg">>

TryInitChecks ==
    <<"ensure_cmds", "is_admin", "os_name", "os_arch", "can_migrate", "disk_info",
      "min_disk_size", "kernel_file", "initrd_file", "boot_space", "os_image",
      "mem_info", "balena_cfg">>

\* the steps that only query the host; the device step has its own action
QueryChecks == Range(TryInitChecks) \ {"os_arch", "can_migrate"}

CheckIdx(check) == CHOOSE i \in DOMAIN TryInitChecks : TryInitChecks[i] = check

\* where the run goes after a passed check: the next one, or migrate's match on the mode
NextCheck(check) ==
    IF CheckIdx(check) = Len(TryInitChecks) THEN "mode"
    ELSE TryInitChecks[CheckIdx(check) + 1]

\* TryInitStep with the error logged but not returned
TryInitStepNoReturn(check, ok) == NextCheck(check)

\* a check of try_init: go on when it passed, return the error otherwise
TryInitStep(check, ok) == IF ok THEN NextCheck(check) ELSE "failed"

TryInitCheck ==
    /\ pc \in QueryChecks
    /\ \E ok \in BOOLEAN :
          /\ pc' = TryInitStep(pc, ok)
          /\ err' = IF pc' = "failed" THEN pc ELSE err
          /\ check_failed' = (check_failed \/ ~ok)
    /\ UNCHANGED <<call, ret, mode, boot, stage2_cfg_file, boot_type, bootmgr_path, setup_locals,
                   restore_res, boot0, stage2_cfg_file0, setup_res, written, backed_up,
                   digest, s2_writes, rebooted>>

\* get_os_arch and the architecture's device detection (lines 143-171)
DetectDevice ==
    /\ pc = "os_arch"
    /\ \E bt \in BootTypes \cup {"none"} :
          /\ boot_type' = bt
          /\ pc' = TryInitStep(pc, bt # "none")
          /\ err' = IF pc' = "failed" THEN pc ELSE err
          /\ check_failed' = (check_failed \/ bt = "none")
    /\ UNCHANGED <<call, ret, mode, boot, stage2_cfg_file, bootmgr_path, setup_locals,
                   restore_res, boot0, stage2_cfg_file0, setup_res, written, backed_up,
                   digest, s2_writes, rebooted>>

(***************************************************************************)
(* RaspiBootManager::can_migrate (raspi_boot_manager.rs lines 85-141),     *)
(* called by the device's from_config (intel_nuc.rs lines 61-73).          *)
(***************************************************************************)
\* MissingDtbs that looks for a file in the work directory only when it is
\* not among the configured device_tree files
MissingDtbsUnlessConfigured(bt, work_files, configured) ==
    Range(DtbFiles(bt)) \ (work_files \cup configured)

\* the files of dtb_files for which file_exists(work_path/file) is false
\* (lines 113-137); a file that is not among the configured device_tree
\* files (mig_info.dtb_file) only gets a warning
MissingDtbs(bt, work_files, configured) == Range(DtbFiles(bt)) \ work_files

\* dir: dir_exists(BOOT_PATH); pinfo: PathInfo::from_path; missing: the required
\* DTB files that are not in the work directory
can_migrate(dir, pinfo, missing) ==
    IF dir = "err" THEN "err"
    ELSE IF dir = "no" THEN "false"
    ELSE IF pinfo # "some" THEN "err"
    ELSE IF missing # {} THEN "false"
    ELSE "true"

CanMigrate ==
    /\ pc = "can_migrate"
    /\ \E dir \in (IF DOMAIN boot = {} THEN {"yes", "no", "err"} ELSE {"yes", "err"}),
          pinfo \in {"some", "none", "err"},
          missing \in SUBSET Range(DtbFiles(boot_type)) :
          LET res == can_migrate(dir, pinfo, missing) IN
          /\ bootmgr_path' = (dir = "yes" /\ pinfo = "some")
          /\ pc' = TryInitStep(pc, res = "true")
          /\ err' = IF pc' = "failed" THEN "can_migrate_" \o res ELSE err
          /\ check_failed' = (check_failed \/ res # "true")
    /\ UNCHANGED <<call, ret, mode, boot, stage2_cfg_file, boot_type, setup_locals,
                   restore_res, boot0, stage2_cfg_file0, setup_res, written, backed_up,
                   digest, s2_writes, rebooted>>

(***************************************************************************)
(* LinuxMigrator::migrate (linux.rs lines 85-92).                          *)
(***************************************************************************)
Modes == {"IMMEDIATE", "PRETEND", "AGENT"}

\* ModeNext with do_migrate called in mode PRETEND too
ModeNextPretendMigrates(m) ==
    CASE m \in {"IMMEDIATE", "PRETEND"} -> "kernel_copy"
      [] OTHER -> "failed"

\* the match on config.migrate.mode (lines 87-91): do_migrate, whose first
\* step is the device's setup, Ok(()) or Err(NotImpl)
ModeNext(m) ==
    CASE m = "IMMEDIATE" -> "kernel_copy"
      [] m = "PRETEND" -> "done"
      [] OTHER -> "failed"

MigrateMode ==
    /\ pc = "mode"
    /\ \E m \in Modes :
          /\ mode' = m
          /\ pc' = ModeNext(m)
          /\ err' = IF ModeNext(m) = "failed" THEN "NotImpl" ELSE err
          /\ setup_res' = IF ModeNext(m) = "kernel_copy" THEN "running" ELSE setup_res
    /\ UNCHANGED <<call, ret, boot, stage2_cfg_file, boot_type, bootmgr_path, setup_locals,
                   restore_res, boot0, stage2_cfg_file0, check_failed, written, backed_up,
                   digest, s2_writes, rebooted>>

(***************************************************************************)
(* RaspiBootManager::setup (raspi_boot_manager.rs lines 144-500), entered  *)
(* from do_migrate (linux.rs lines 343-347) through the device's setup     *)
(* (intel_nuc.rs lines 101-110).                                           *)
(***************************************************************************)
\* setup returns the error e
SetupFails(e) ==
    /\ pc' = "failed"
    /\ err' = e
    /\ setup_res' = "err"

\* the files written so far, after a copy or write to f that ended with outcome
Touch(f, outcome) == IF outcome = "err" THEN written ELSE written \cup {f}

DigestResults == {"ok", "mismatch", "err"}

\* copy new kernel (lines 154-163)
KernelCopy ==
    /\ pc = "kernel_copy"
    /\ \E o \in CopyOutcomes :
          /\ boot' = copy(boot, WorkContent(RPI_MIG_KERNEL_NAME), RPI_MIG_KERNEL_NAME, o)
          /\ written' = Touch(RPI_MIG_KERNEL_NAME, o)
          /\ IF o = "ok"
             THEN /\ pc' = "kernel_digest"
                  /\ digest' = [digest EXCEPT ![RPI_MIG_KERNEL_NAME] = "unchecked"]
                  /\ UNCHANGED <<err, setup_res>>
             ELSE /\ SetupFails("kernel_copy")
                  /\ UNCHANGED digest
    /\ UNCHANGED <<call, ret, mode, stage2_cfg_file, boot_type, bootmgr_path, setup_locals,
                   restore_res, boot0, stage2_cfg_file0, check_failed, backed_up,
                   s2_writes, rebooted>>

\* where setup goes after check_digest on the copied kernel (lines 165-173)
KernelDigestNext(res) == IF res = "ok" THEN "chmod" ELSE "failed"

KernelDigest ==
    /\ pc = "kernel_digest"
    /\ \E res \in DigestResults :
          /\ digest' = [digest EXCEPT ![RPI_MIG_KERNEL_NAME] = res]
          /\ IF KernelDigestNext(res) = "failed"
             THEN SetupFails("kernel_digest_" \o res)
             ELSE pc' = KernelDigestNext(res) /\ UNCHANGED <<err, setup_res>>
    /\ UNCHANGED <<call, ret, mode, boot, stage2_cfg_file, boot_type, bootmgr_path, setup_locals,
                   restore_res, boot0, stage2_cfg_file0, check_failed, written, backed_up,
                   s2_writes, rebooted>>

\* call(CHMOD_CMD, ["+x", kernel], false)? (line 181; call: common/mod.rs lines 43-73):
\* an error only when the command could not be executed
ChmodNext(res) == IF res = "spawn_err" THEN "failed" ELSE "initrd_copy"

Chmod ==
    /\ pc = "chmod"
    /\ \E res \in {"exit0", "exit1", "spawn_err"} :
          IF ChmodNext(res) = "failed"
          THEN SetupFails("chmod")
          ELSE pc' = ChmodNext(res) /\ UNCHANGED <<err, setup_res>>
    /\ UNCHANGED <<call, ret, mode, boot, stage2_cfg_file, boot_type, bootmgr_path, setup_locals,
                   restore_res, boot0, stage2_cfg_file0, check_failed, written, backed_up,
                   digest, s2_writes, rebooted>>

\* copy new initramfs (lines 185-194)
InitrdCopy ==
    /\ pc = "initrd_copy"
    /\ \E o \in CopyOutcomes :
          /\ boot' = copy(boot, WorkContent(RPI_MIG_INITRD_NAME), RPI_MIG_INITRD_NAME, o)
          /\ written' = Touch(RPI_MIG_INITRD_NAME, o)
          /\ IF o = "ok"
             THEN /\ pc' = "initrd_digest"
                  /\ digest' = [digest EXCEPT ![RPI_MIG_INITRD_NAME] = "unchecked"]
                  /\ UNCHANGED <<err, setup_res>>
             ELSE /\ SetupFails("initrd_copy")
                  /\ UNCHANGED digest
    /\ UNCHANGED <<call, ret, mode, stage2_cfg_file, boot_type, bootmgr_path, setup_locals,
                   restore_res, boot0, stage2_cfg_file0, check_failed, backed_up,
                   s2_writes, rebooted>>

\* where setup goes after check_digest on the copied initramfs (lines 196-204)
InitrdDigestNext(res) == IF res = "ok" THEN "timestamp" ELSE "failed"

InitrdDigest ==
    /\ pc = "initrd_digest"
    /\ \E res \in DigestResults :
          /\ digest' = [digest EXCEPT ![RPI_MIG_INITRD_NAME] = res]
          /\ IF InitrdDigestNext(res) = "failed"
             THEN SetupFails("initrd_digest_" \o res)
             ELSE pc' = InitrdDigestNext(res) /\ UNCHANGED <<err, setup_res>>
    /\ UNCHANGED <<call, ret, mode, boot, stage2_cfg_file, boot_type, bootmgr_path, setup_locals,
                   restore_res, boot0, stage2_cfg_file0, check_failed, written, backed_up,
                   s2_writes, rebooted>>

\* what SystemTime::now().duration_since(UNIX_EPOCH) may give: seconds, or -1 for
\* its error (a clock before the epoch)
ClockReadings == {-1} \cup (1 .. MaxTime)

\* the bootmgr_path test and the timestamp (lines 212-230)
Timestamp ==
    /\ pc = "timestamp"
    /\ \E t \in ClockReadings :
          IF ~bootmgr_path
          THEN SetupFails("bootmgr_path_not_configured") /\ UNCHANGED setup_locals
          ELSE IF t < 0
          THEN SetupFails("timestamp") /\ UNCHANGED setup_locals
          ELSE /\ system_time' = t
               /\ boot_cfg_bckup' = <<>>
               /\ dtb_idx' = 1
               /\ pc' = "dtb_backup"
               /\ UNCHANGED <<err, setup_res, s2_cfg_bckup, balena_config, config_str,
                              cmdline_str>>
    /\ UNCHANGED <<call, ret, mode, boot, stage2_cfg_file, boot_type, bootmgr_path,
                   restore_res, boot0, stage2_cfg_file0, check_failed, written, backed_up,
                   digest, s2_writes, rebooted>>

(***************************************************************************)
(* setup: the loop over the required DTB files (lines 232-280).            *)
(***************************************************************************)
CurDtb == DtbFiles(boot_type)[dtb_idx]

\* NeedDtbBackup testing for the backup's name instead of the DTB's
NeedDtbBackupWrongPath(fs, file) == file_exists(fs, file \o "-")

\* whether the DTB in /boot is backed up before it is replaced (line 236)
NeedDtbBackup(fs, file) == file_exists(fs, file)

\* CopySucceeded without the `?`: a failed copy is not noticed
CopySucceededAlways(outcome) == TRUE

\* the `?` on a copy (lines 239-246, 297-304, 383-390): setup goes on only
\* when the copy succeeded
CopySucceeded(outcome) == outcome = "ok"

\* the backup list and the history after the backup copy of orig ended with outcome
RecordBackup(orig, bckup, outcome) ==
    /\ written' = Touch(bckup, outcome)
    /\ IF CopySucceeded(outcome)
       THEN /\ boot_cfg_bckup' = Append(boot_cfg_bckup, <<orig, bckup>>)
            /\ backed_up' = IF outcome = "ok" /\ orig \notin written
                            THEN backed_up \cup {orig} ELSE backed_up
       ELSE UNCHANGED <<boot_cfg_bckup, backed_up>>

DtbBackup ==
    /\ pc = "dtb_backup"
    /\ IF NeedDtbBackup(boot, CurDtb)
       THEN \E o \in CopyOutcomes :
               LET bckup == DtbBackupFile(CurDtb, system_time) IN
               /\ boot' = copy(boot, boot[CurDtb], bckup, o)
               /\ RecordBackup(CurDtb, bckup, o)
               /\ IF CopySucceeded(o)
                  THEN pc' = "dtb_copy" /\ UNCHANGED <<err, setup_res>>
                  ELSE SetupFails("dtb_backup")
       ELSE /\ pc' = "dtb_copy"
            /\ UNCHANGED <<boot, boot_cfg_bckup, written, backed_up, err, setup_res>>
    /\ UNCHANGED <<call, ret, mode, stage2_cfg_file, boot_type, bootmgr_path, system_time, dtb_idx,
                   s2_cfg_bckup, balena_config, config_str, cmdline_str,
                   restore_res, boot0, stage2_cfg_file0, check_failed,
                   digest, s2_writes, rebooted>>

\* copy the DTB from the work directory over the one in /boot (lines 250-257)
DtbCopy ==
    /\ pc = "dtb_copy"
    /\ \E o \in CopyOutcomes :
          /\ boot' = copy(boot, WorkContent(CurDtb), CurDtb, o)
          /\ written' = Touch(CurDtb, o)
          /\ IF CopySucceeded(o)
             THEN /\ pc' = "dtb_digest"
                  /\ digest' = [digest EXCEPT ![CurDtb] = "unchecked"]
                  /\ UNCHANGED <<err, setup_res>>
             ELSE /\ SetupFails("dtb_copy")
                  /\ UNCHANGED digest
    /\ UNCHANGED <<call, ret, mode, stage2_cfg_file, boot_type, bootmgr_path, setup_locals,
                   restore_res, boot0, stage2_cfg_file0, check_failed, backed_up,
                   s2_writes, rebooted>>

\* where setup goes after the digest check of a copied DTB (lines 259-279): a
\* mismatch and an error of the check are logged, "proceeding anyway"
DtbDigestNext(res) == "next_dtb"

\* res is "not_configured" when mig_info.dtb_file has no entry for the file
DtbDigest ==
    /\ pc = "dtb_digest"
    /\ \E res \in DigestResults \cup {"not_configured"} :
          /\ digest' = [digest EXCEPT ![CurDtb] =
                           IF res = "not_configured" THEN "unchecked" ELSE res]
          /\ IF DtbDigestNext(res) = "failed"
             THEN SetupFails("dtb_digest_" \o res) /\ UNCHANGED dtb_idx
             ELSE /\ UNCHANGED <<err, setup_res>>
                  /\ IF dtb_idx < Len(DtbFiles(boot_type))
                     THEN dtb_idx' = dtb_idx + 1 /\ pc' = "dtb_backup"
                     ELSE dtb_idx' = dtb_idx /\ pc' = "config_check"
    /\ UNCHANGED <<call, ret, mode, boot, stage2_cfg_file, boot_type, bootmgr_path, system_time,
                   boot_cfg_bckup, s2_cfg_bckup, balena_config, config_str, cmdline_str,
                   restore_res, boot0, stage2_cfg_file0, check_failed, written, backed_up,
                   s2_writes, rebooted>>

(***************************************************************************)
(* setup: config.txt and cmdline.txt (lines 282-463).                      *)
(***************************************************************************)
\* file_exists(config_path) and is_balena_file(config_path)? (lines 282-291)
ConfigCheck ==
    /\ pc = "config_check"
    /\ IF ~file_exists(boot, RPI_CONFIG_TXT)
       THEN SetupFails("config_txt_not_found") /\ UNCHANGED balena_config
       ELSE \E readable \in BOOLEAN :
               IF readable
               THEN /\ balena_config' = is_balena_file(boot[RPI_CONFIG_TXT])
                    /\ pc' = "config_backup"
                    /\ UNCHANGED <<err, setup_res>>
               ELSE SetupFails("is_balena_file") /\ UNCHANGED balena_config
    /\ UNCHANGED <<call, ret, mode, boot, stage2_cfg_file, boot_type, bootmgr_path, system_time,
                   dtb_idx, boot_cfg_bckup, s2_cfg_bckup, config_str, cmdline_str,
                   restore_res, boot0, stage2_cfg_file0, check_failed, written, backed_up,
                   digest, s2_writes, rebooted>>

\* NeedConfigBackup without the is_balena_file test
NeedConfigBackupAlways(balena_cfg) == TRUE

\* whether config.txt is backed up (line 292)
NeedConfigBackup(balena_cfg) == ~balena_cfg

\* NeedCmdlineBackup that never asks for the backup
NeedCmdlineBackupNever(balena_cfg) == FALSE

\* whether cmdline.txt is backed up (lines 377-378): "Assume we have to backup
\* cmdline.txt if we had to backup config.txt"
NeedCmdlineBackup(balena_cfg) == ~balena_cfg

\* backup config.txt (lines 292-316)
ConfigBackup ==
    /\ pc = "config_backup"
    /\ IF NeedConfigBackup(balena_config)
       THEN \E o \in CopyOutcomes :
               LET bckup == ConfigBackupFile(system_time) IN
               /\ boot' = copy(boot, boot[RPI_CONFIG_TXT], bckup, o)
               /\ RecordBackup(RPI_CONFIG_TXT, bckup, o)
               /\ IF CopySucceeded(o)
                  THEN pc' = "config_read" /\ UNCHANGED <<err, setup_res>>
                  ELSE SetupFails("config_backup")
       ELSE /\ pc' = "config_read"
            /\ UNCHANGED <<boot, boot_cfg_bckup, written, backed_up, err, setup_res>>
    /\ UNCHANGED <<call, ret, mode, stage2_cfg_file, boot_type, bootmgr_path, system_time, dtb_idx,
                   s2_cfg_bckup, balena_config, config_str, cmdline_str,
                   restore_res, boot0, stage2_cfg_file0, check_failed,
                   digest, s2_writes, rebooted>>

\* AfterConfigStr with config.txt written as soon as its new content is built
AfterConfigStrWritesAtOnce == "config_create"

\* what setup does once config_str is complete (lines 371-393): it turns to
\* cmdline.txt; the writes wait until "Finally write stuff" (line 465)
AfterConfigStr == "cmdline_backup"

\* read config.txt and build the new one (lines 318-369)
ConfigRead ==
    /\ pc = "config_read"
    /\ \E readable \in BOOLEAN :
          IF readable
          THEN /\ config_str' = ConfigStr(boot[RPI_CONFIG_TXT], balena_config, boot_type)
               /\ pc' = AfterConfigStr
               /\ UNCHANGED <<err, setup_res>>
          ELSE SetupFails("config_read") /\ UNCHANGED config_str
    /\ UNCHANGED <<call, ret, mode, boot, stage2_cfg_file, boot_type, bootmgr_path, system_time,
                   dtb_idx, boot_cfg_bckup, s2_cfg_bckup, balena_config, cmdline_str,
                   restore_res, boot0, stage2_cfg_file0, check_failed, written, backed_up,
                   digest, s2_writes, rebooted>>

\* backup cmdline.txt (lines 376-393); the copy fails when there is no cmdline.txt
CmdlineBackup ==
    /\ pc = "cmdline_backup"
    /\ IF NeedCmdlineBackup(balena_config)
       THEN \E o \in (IF file_exists(boot, RPI_CMDLINE_TXT) THEN CopyOutcomes ELSE {"err"}) :
               LET bckup == CmdlineBackupFile(system_time) IN
               /\ boot' = IF o = "err" THEN boot
                          ELSE copy(boot, boot[RPI_CMDLINE_TXT], bckup, o)
               /\ RecordBackup(RPI_CMDLINE_TXT, bckup, o)
               /\ IF CopySucceeded(o)
                  THEN pc' = "cmdline_read" /\ UNCHANGED <<err, setup_res>>
                  ELSE SetupFails("cmdline_backup")
       ELSE /\ pc' = "cmdline_read"
            /\ UNCHANGED <<boot, boot_cfg_bckup, written, backed_up, err, setup_res>>
    /\ UNCHANGED <<call, ret, mode, stage2_cfg_file, boot_type, bootmgr_path, system_time, dtb_idx,
                   s2_cfg_bckup, balena_config, config_str, cmdline_str,
                   restore_res, boot0, stage2_cfg_file0, check_failed,
                   digest, s2_writes, rebooted>>

\* read cmdline.txt and build the new one (lines 395-458)
CmdlineRead ==
    /\ pc = "cmdline_read"
    /\ \E readable \in (IF file_exists(boot, RPI_CMDLINE_TXT) THEN BOOLEAN ELSE {FALSE}),
          kernel_opts \in KernelOpts :
          IF readable
          THEN /\ cmdline_str' = CmdlineStr(boot[RPI_CMDLINE_TXT], kernel_opts)
               /\ pc' = "set_boot_bckup"
               /\ UNCHANGED <<err, setup_res>>
          ELSE SetupFails("cmdline_read") /\ UNCHANGED cmdline_str
    /\ UNCHANGED <<call, ret, mode, boot, stage2_cfg_file, boot_type, bootmgr_path, system_time,
                   dtb_idx, boot_cfg_bckup, s2_cfg_bckup, balena_config, config_str,
                   restore_res, boot0, stage2_cfg_file0, check_failed, written, backed_up,
                   digest, s2_writes, rebooted>>

\* save the backup locations to s2_config (lines 460-463)
SetBootBckup ==
    /\ pc = "set_boot_bckup"
    /\ s2_cfg_bckup' = IF boot_cfg_bckup # <<>> THEN boot_cfg_bckup ELSE s2_cfg_bckup
    /\ pc' = "config_create"
    /\ UNCHANGED <<call, ret, err, mode, boot, stage2_cfg_file, boot_type, bootmgr_path, system_time,
                   dtb_idx, boot_cfg_bckup, balena_config, config_str, cmdline_str,
                   restore_res, history>>

(***************************************************************************)
(* setup: "Finally write stuff" (lines 465-499).                           *)
(***************************************************************************)
\* File::write may take only part of the buffer and still return Ok: "short"
WriteOutcomes == {"full", "short", "err"}

\* what a file holds after File::write of content ended with outcome
Written(content, outcome) ==
    CASE outcome = "full" -> content
      [] outcome = "short" -> SubSeq(content, 1, Len(content) - 1)
      [] OTHER -> <<>>

\* File::create(config.txt) (lines 467-473): the file is truncated
ConfigCreate ==
    /\ pc = "config_create"
    /\ \E created \in BOOLEAN :
          IF created
          THEN /\ boot' = PutFile(boot, RPI_CONFIG_TXT, <<>>)
               /\ written' = written \cup {RPI_CONFIG_TXT}
               /\ digest' = [digest EXCEPT ![RPI_CONFIG_TXT] = "unchecked"]
               /\ pc' = "config_write"
               /\ UNCHANGED <<err, setup_res>>
          ELSE SetupFails("config_create") /\ UNCHANGED <<boot, written, digest>>
    /\ UNCHANGED <<call, ret, mode, stage2_cfg_file, boot_type, bootmgr_path, setup_locals,
                   restore_res, boot0, stage2_cfg_file0, check_failed, backed_up,
                   s2_writes, rebooted>>

\* config_file.write(config_str) (lines 475-480)
ConfigWrite ==
    /\ pc = "config_write"
    /\ \E o \in WriteOutcomes :
          /\ boot' = PutFile(boot, RPI_CONFIG_TXT, Written(config_str, o))
          /\ IF o = "err"
             THEN SetupFails("config_write")
             ELSE pc' = "cmdline_create" /\ UNCHANGED <<err, setup_res>>
    /\ UNCHANGED <<call, ret, mode, stage2_cfg_file, boot_type, bootmgr_path, setup_locals,
                   restore_res, boot0, stage2_cfg_file0, check_failed, written, backed_up,
                   digest, s2_writes, rebooted>>

\* File::create(cmdline.txt) (lines 482-488)
CmdlineCreate ==
    /\ pc = "cmdline_create"
    /\ \E created \in BOOLEAN :
          IF created
          THEN /\ boot' = PutFile(boot, RPI_CMDLINE_TXT, <<>>)
               /\ written' = written \cup {RPI_CMDLINE_TXT}
               /\ digest' = [digest EXCEPT ![RPI_CMDLINE_TXT] = "unchecked"]
               /\ pc' = "cmdline_write"
               /\ UNCHANGED <<err, setup_res>>
          ELSE SetupFails("cmdline_create") /\ UNCHANGED <<boot, written, digest>>
    /\ UNCHANGED <<call, ret, mode, stage2_cfg_file, boot_type, bootmgr_path, setup_locals,
                   restore_res, boot0, stage2_cfg_file0, check_failed, backed_up,
                   s2_writes, rebooted>>

\* AfterSetup without the `?`: write_stage2_cfg runs whatever setup returned
AfterSetupIgnoresError(res) == "s2_create"

\* do_migrate after the device's setup returned res (linux.rs lines 343-349):
\* `?` returns the error, otherwise write_stage2_cfg is next
AfterSetup(res) == IF res = "ok" THEN "s2_create" ELSE "failed"

\* cmdline_file.write(cmdline_str) and setup's return (lines 490-499)
CmdlineWrite ==
    /\ pc = "cmdline_write"
    /\ \E o \in WriteOutcomes :
          LET res == IF o = "err" THEN "err" ELSE "ok" IN
          /\ boot' = PutFile(boot, RPI_CMDLINE_TXT, Written(cmdline_str, o))
          /\ setup_res' = res
          /\ pc' = AfterSetup(res)
          /\ err' = IF res = "err" THEN "cmdline_write" ELSE err
    /\ UNCHANGED <<call, ret, mode, stage2_cfg_file, boot_type, bootmgr_path, setup_locals,
                   restore_res, boot0, stage2_cfg_file0, check_failed, written, backed_up,
                   digest, s2_writes, rebooted>>

(***************************************************************************)
(* Stage2Config::write_stage2_cfg (stage2_config.rs lines 46-109), called  *)
(* by do_migrate (linux.rs line 349).                                      *)
(***************************************************************************)
\* File::create(STAGE2_CFG_FILE) (lines 91-97): the file at the final path is
\* created or truncated
Stage2Create ==
    /\ pc = "s2_create"
    /\ s2_writes' = s2_writes + 1
    /\ \E created \in BOOLEAN :
          IF created
          THEN /\ stage2_cfg_file' = [exists |-> TRUE, lines |-> <<>>, synced |-> FALSE]
               /\ pc' = "s2_write"
               /\ UNCHANGED err
          ELSE /\ pc' = "failed"
               /\ err' = "stage2_create"
               /\ UNCHANGED stage2_cfg_file
    /\ UNCHANGED <<call, ret, mode, boot, boot_type, bootmgr_path, setup_locals, restore_res,
                   boot0, stage2_cfg_file0, check_failed, setup_res, written, backed_up,
                   digest, rebooted>>

\* how many lines of cfg_str write_all may have written when it returns: all of
\* them (Ok), or, with an error, none or all but the last
WriteAllCuts(cfg_str) == {0, Len(cfg_str) - 1, Len(cfg_str)}

\* cfg_file.write_all(cfg_str) (lines 98-106) and the drop of cfg_file when
\* write_stage2_cfg returns: the file is written and closed, nothing calls
\* sync_all
Stage2Write ==
    /\ pc = "s2_write"
    /\ LET cfg_str == Stage2CfgStr(boot_type, s2_cfg_bckup) IN
       \E n \in WriteAllCuts(cfg_str) :
          /\ stage2_cfg_file' =
                [exists |-> TRUE, lines |-> SubSeq(cfg_str, 1, n), synced |-> FALSE]
          /\ IF n = Len(cfg_str)
             THEN pc' = "reboot" /\ UNCHANGED err
             ELSE pc' = "failed" /\ err' = "stage2_write"
    /\ UNCHANGED <<call, ret, mode, boot, boot_type, bootmgr_path, setup_locals, restore_res,
                   history>>

\* the reboot (linux.rs lines 352-360): delay is config.migrate.reboot.
\* Whether the kernel has written the descriptor to the disk when the sleep
\* begins is its choice (flushed): the run has not asked for it.
Reboot ==
    /\ pc = "reboot"
    /\ \E delay \in {"none", "some"}, res \in {"exit0", "exit1", "spawn_err"},
          flushed \in BOOLEAN :
          IF delay = "none"
          THEN pc' = "done" /\ UNCHANGED <<err, rebooted, stage2_cfg_file>>
          ELSE /\ stage2_cfg_file' = [stage2_cfg_file EXCEPT !.synced = flushed]
               /\ IF res = "spawn_err"
                  THEN pc' = "failed" /\ err' = "reboot" /\ UNCHANGED rebooted
                  ELSE pc' = "done" /\ rebooted' = TRUE /\ UNCHANGED err
    /\ UNCHANGED <<call, ret, mode, boot, boot_type, bootmgr_path, setup_locals,
                   restore_res, boot0, stage2_cfg_file0, check_failed, setup_res, written,
                   backed_up, digest, s2_writes>>

(***************************************************************************)
(* RaspiBootManager::restore (raspi_boot_manager.rs lines 502-505), as the *)
(* device's restore_boot calls it (intel_nuc.rs lines 112-115) with the    *)
(* descriptor a successful stage 1 left.                                   *)
(***************************************************************************)
\* the files under /boot after restore, and what it returns
restore(fs, bckups) == [boot |-> fs, res |-> FALSE]

RestoreBoot ==
    /\ pc = "done"
    /\ setup_res = "ok"
    /\ LET r == restore(boot, s2_cfg_bckup) IN
          /\ boot' = r.boot
          /\ restore_res' = IF r.res THEN "true" ELSE "false"
    /\ pc' = "restored"
    /\ UNCHANGED <<call, ret, err, mode, stage2_cfg_file, boot_type, bootmgr_path, setup_locals,
                   history>>

Next ==
    \/ TryInitCheck \/ DetectDevice \/ CanMigrate \/ MigrateMode
    \/ KernelCopy \/ KernelDigest \/ Chmod \/ InitrdCopy \/ InitrdDigest \/ Timestamp
    \/ DtbBackup \/ DtbCopy \/ DtbDigest
    \/ ConfigCheck \/ ConfigBackup \/ ConfigRead \/ CmdlineBackup \/ CmdlineRead
    \/ SetBootBckup \/ ConfigCreate \/ ConfigWrite \/ CmdlineCreate \/ CmdlineWrite
    \/ Stage2Create \/ Stage2Write \/ Reboot \/ RestoreBoot

Spec == Init /\ [][Next]_vars

(***************************************************************************)
(* LinuxMigrator::get_disk_info (linux.rs lines 428-545).  A path resolves *)
(* to "err" (PathInfo::new returned an error), to "none" (it returned      *)
(* None) or to the parent drive of the partition that backs it.  A line of *)
(* lsblk's output is the sequence of its characters.                       *)
(***************************************************************************)
Drives == {"/dev/sda", "/dev/sdb"}
PathResults == {"err", "none"} \cup Drives

DigitValue(c) ==
    CASE c = "0" -> 0 [] c = "1" -> 1 [] c = "2" -> 2 [] c = "3" -> 3 [] c = "4" -> 4
      [] c = "5" -> 5 [] c = "6" -> 6 [] c = "7" -> 7 [] c = "8" -> 8 [] c = "9" -> 9

(* A u64 is held as its decimal numeral, the sequence of its digits without *)
(* leading zeros: the sizes compared with MIN_DISK_SIZE = 2^31 and the      *)
(* limit of u64 are beyond the integers of the model checker.               *)
RECURSIVE StripZeros(_)
\* the numeral of a run of digits
StripZeros(digits) ==
    IF Len(digits) > 1 /\ digits[1] = "0" THEN StripZeros(Tail(digits)) ELSE digits

\* a < b for two numerals
NumeralLess(a, b) ==
    \/ Len(a) < Len(b)
    \/ /\ Len(a) = Len(b)
       /\ \E i \in 1 .. Len(a) :
             /\ \A j \in 1 .. (i - 1) : a[j] = b[j]
             /\ DigitValue(a[i]) < DigitValue(b[i])

\* u64::MAX = 18446744073709551615
U64_MAX ==
    <<"1", "8", "4", "4", "6", "7", "4", "4", "0", "7", "3", "7", "0", "9", "5", "5", "1",
      "6", "1", "5">>

\* str::parse::<u64> on a run of digits returns Err: the number is above u64::MAX
ParseU64Fails(digits) == NumeralLess(U64_MAX, StripZeros(digits))

\* str::parse::<u64> on a run of digits, when it returns Ok
ParseU64(digits) == StripZeros(digits)

\* MIN_DISK_SIZE = 2 * 1024 * 1024 * 1024 (line 75)
MIN_DISK_SIZE == <<"2", "1", "4", "7", "4", "8", "3", "6", "4", "8">>

\* drive_size < MIN_DISK_SIZE (line 204)
TooSmallDrive(drive_size) == NumeralLess(drive_size, MIN_DISK_SIZE)

RECURSIVE DigitRun(_, _)
\* how many of the characters of line from position i on are digits: (\d+)
DigitRun(line, i) ==
    IF i <= Len(line) /\ line[i] \in Digits THEN 1 + DigitRun(line, i + 1) ELSE 0

RECURSIVE SpaceRun(_, _)
\* how many of the characters of line from position i on are blanks: \s+
SpaceRun(line, i) ==
    IF i <= Len(line) /\ IsSpace(line[i]) THEN 1 + SpaceRun(line, i + 1) ELSE 0

NoCaptures == [matched |-> FALSE]

\* LsblkCaptures with the second group not optional: ^(\d+)\s+(.*)$
LsblkCapturesUuidRequired(line) ==
    LET k == DigitRun(line, 1)
        b == SpaceRun(line, k + 1)
    IN  IF k = 0 \/ b = 0 THEN NoCaptures
        ELSE [matched |-> TRUE, size |-> SubSeq(line, 1, k), has_uuid |-> TRUE,
              uuid |-> SubSeq(line, k + b + 1, Len(line))]

\* Regex::new(LSBLK_REGEX).captures(line), LSBLK_REGEX = ^(\d+)(\s+(.*))?$
\* (linux.rs line 73): group 1 is size, group 3 is uuid when group 2 took part
LsblkCaptures(line) ==
    LET k == DigitRun(line, 1)
        b == SpaceRun(line, k + 1)
    IN  IF k = 0 THEN NoCaptures
        ELSE IF k = Len(line)
        THEN [matched |-> TRUE, size |-> SubSeq(line, 1, k), has_uuid |-> FALSE]
        ELSE IF b = 0 THEN NoCaptures
        ELSE [matched |-> TRUE, size |-> SubSeq(line, 1, k), has_uuid |-> TRUE,
              uuid |-> SubSeq(line, k + b + 1, Len(line))]

\* SplitDrive that never finds two drives
SplitDriveNever(root_drive, part_drive) == FALSE

\* root_part.drive != boot_part.drive, root_part.drive != efi_part.drive
\* (lines 478, 489)
SplitDrive(root_drive, part_drive) == root_drive # part_drive

DiskInfoErr(e) == [ok |-> FALSE, err |-> e]

\* the part of get_disk_info after the drive checks (lines 499-536): a is the
\* host's answers, lsblk its result for root's drive
DriveAttributes(a) ==
    IF a.lsblk.res = "spawn_err" THEN DiskInfoErr("call_cmd")
    ELSE IF a.lsblk.res # "exit0" \/ a.lsblk.stdout = <<>> THEN DiskInfoErr("ExecProcess")
    ELSE IF Len(a.lsblk.stdout) < 2 THEN DiskInfoErr("InvParam")
    ELSE LET captures == LsblkCaptures(a.lsblk.stdout[2]) IN
         \* parse::<u64>().unwrap() (line 529) on a size above u64::MAX
         IF captures.matched /\ ParseU64Fails(captures.size) THEN DiskInfoErr("panic")
         ELSE
         [ok |-> TRUE,
          boot_path |-> a.boot,
          efi_path |-> IF a.efi_boot THEN a.efi ELSE "none",
          root_path |-> a.root,
          \* DiskInfo::default() leaves drive_size 0 when the line does not match
          drive_size |-> IF captures.matched THEN ParseU64(captures.size) ELSE <<"0">>,
          drive_uuid |-> IF captures.matched /\ captures.has_uuid THEN captures.uuid
                         ELSE <<>>,
          drive_dev |-> a.root]

get_disk_info(a) ==
    IF a.boot = "err" THEN DiskInfoErr("boot_path")
    ELSE IF a.boot = "none" THEN DiskInfoErr("InvState")
    ELSE IF a.efi_boot /\ a.efi = "err" THEN DiskInfoErr("efi_path")
    ELSE IF a.work = "err" THEN DiskInfoErr("work_path")
    ELSE IF a.root = "err" THEN DiskInfoErr("root_path")
    ELSE IF a.root = "none" THEN DiskInfoErr("InvState")
    ELSE IF SplitDrive(a.root, a.boot) THEN DiskInfoErr("split_drive")
    ELSE IF a.efi_boot /\ a.efi # "none" /\ SplitDrive(a.root, a.efi)
         THEN DiskInfoErr("split_drive")
    ELSE DriveAttributes(a)

(***************************************************************************)
(* The secure boot gates: IntelNuc::from_config (intel_nuc.rs lines 13-74) *)
(* with the setup that a returned device allows (lines 101-110), and the   *)
(* head of the Windows MigrateInfo::new (migrate_info.rs lines 46-89).     *)
(* A result carries the calls made, in order.                              *)
(***************************************************************************)
\* SecureBootOn that never refuses
SecureBootOnIgnored(secure_boot) == FALSE

\* secure_boot == true (intel_nuc.rs line 53)
SecureBootOn(secure_boot) == secure_boot = "on"

DeviceErr(e, invoked) == [ok |-> FALSE, err |-> e, invoked |-> invoked, boot_modified |-> FALSE]

\* a: os_supported, and the results of is_secure_boot() and of can_migrate
IntelNucFromConfig(a) ==
    IF ~a.os_supported THEN DeviceErr("InvParam", <<>>)
    ELSE IF a.secure_boot = "err" THEN DeviceErr("is_secure_boot", <<"is_secure_boot">>)
    ELSE IF SecureBootOn(a.secure_boot) THEN DeviceErr("InvParam", <<"is_secure_boot">>)
    ELSE IF a.can_migrate = "err"
         THEN DeviceErr("can_migrate", <<"is_secure_boot", "can_migrate">>)
    ELSE IF a.can_migrate = "yes"
         THEN [ok |-> TRUE, invoked |-> <<"is_secure_boot", "can_migrate">>,
               boot_modified |-> FALSE]
    ELSE DeviceErr("InvState", <<"is_secure_boot", "can_migrate">>)

\* Device::setup of the device from_config returned, which do_migrate calls
\* (linux.rs lines 343-347) when the rest of try_init passed; the boot
\* manager's setup writes under /boot
IntelNucSetup(a) ==
    LET dev == IntelNucFromConfig(a) IN
    IF dev.ok /\ a.init_ok
    THEN [dev EXCEPT !.invoked = @ \o <<"setup">>, !.boot_modified = TRUE]
    ELSE dev

\* 128 * 1024 * 1024 (linux.rs line 71; APPROX_MEM_THRESHOLD on Windows)
MEM_THRESHOLD == 134217728


\* get_mem_info()?.0 < required_mem without the threshold
TooLittleMemoryNoThreshold(mem_tot, image_size) == mem_tot < image_size

\* get_mem_info()?.0 < required_mem (linux.rs lines 295-296) and
\* os_info.mem_tot < required_mem (migrate_info.rs lines 104-105)
TooLittleMemory(mem_tot, image_size) == mem_tot < image_size + MEM_THRESHOLD

\* curr_path_str: the logical drive's name with '\' pushed after a final ':'
\* (migrate_info.rs lines 282-285)
CurrPath(ld) == ld \o "\\"

\* the state of get_drive_info's loop over the partitions: the paths found
\* ("none" for None), whether mount_efi gave the ESP a drive letter, and the
\* error returned ("" while there is none)
DriveScan0 ==
    [boot_path |-> "none", work_path |-> "none", efi_path |-> "none", esp_mounted |-> FALSE,
     err |-> ""]

\* the body of the loop for a partition with a logical drive (lines 281-350)
ScanLogicalDrive(st, p, a) ==
    LET isBoot == st.boot_path = "none" /\ CurrPath(p.ld) = a.boot_dir
        isWork == a.work_root = CurrPath(p.ld) /\ CurrPath(p.ld) \in a.mount_points
    IN  IF (isBoot \/ isWork) /\ ~a.path_info THEN [st EXCEPT !.err = "PathInfo"]
        ELSE [st EXCEPT !.boot_path = IF isBoot THEN CurrPath(p.ld) ELSE @,
                        !.work_path = IF isWork THEN CurrPath(p.ld) ELSE @]

\* the body of the loop for a partition that is the boot device (lines 352-423)
ScanBootDevice(st, p, a) ==
    IF p.ld # "none" /\ a.efi_dl # "" /\ p.ld # a.efi_dl THEN st
    ELSE IF p.ld = "none" /\ ~a.mount_efi THEN [st EXCEPT !.err = "Displayed"]
    ELSE LET efi_mnt == IF p.ld # "none" THEN p.ld ELSE "M:"
             mounted == [st EXCEPT !.esp_mounted = @ \/ p.ld = "none"]
         IN  IF ~(a.efi_boot = "efi" /\ a.efi_vfat) THEN mounted
             ELSE IF a.efi_dir = "err" THEN [mounted EXCEPT !.err = "dir_exists"]
             ELSE IF a.efi_dir = "no" THEN mounted
             ELSE IF ~a.path_info THEN [mounted EXCEPT !.err = "PathInfo"]
             ELSE [mounted EXCEPT !.efi_path = efi_mnt]

\* one partition of the loop (lines 273-424)
ScanPartition(st, p, a) ==
    IF st.err # "" THEN st
    ELSE IF p.ld = "err" THEN [st EXCEPT !.err = "query_logical_drive"]
    ELSE LET paths == IF p.ld # "none" THEN ScanLogicalDrive(st, p, a) ELSE st IN
         IF paths.err # "" \/ ~p.boot_dev THEN paths
         ELSE ScanBootDevice(paths, p, a)

RECURSIVE ScanPartitions(_, _, _)
ScanPartitions(st, parts, a) ==
    IF parts = <<>> THEN st
    ELSE ScanPartitions(ScanPartition(st, Head(parts), a), Tail(parts), a)

\* UnexpectedVolumes that accepts more than one volume
UnexpectedVolumesNone(n) == n = 0

\* volumes.len() == 1 ... else Err (lines 205-220, 223-249)
UnexpectedVolumes(n) == n # 1

\* MigrateInfo::get_drive_info (migrate_info.rs lines 180-467).  a.query_err
\* names the query of the host that fails ("none": no query fails), the
\* other fields are the host's answers.
get_drive_info(a) ==
    IF a.query_err = "canonicalize" THEN [DriveScan0 EXCEPT !.err = "canonicalize"]
    ELSE IF a.query_err = "query_system_volumes"
         THEN [DriveScan0 EXCEPT !.err = "query_system_volumes"]
    ELSE IF UnexpectedVolumes(a.sys_vols) THEN [DriveScan0 EXCEPT !.err = "InvParam"]
    ELSE IF a.query_err = "query_boot_volumes"
         THEN [DriveScan0 EXCEPT !.err = "query_boot_volumes"]
    ELSE IF UnexpectedVolumes(a.boot_vols) THEN [DriveScan0 EXCEPT !.err = "InvParam"]
    ELSE IF a.boot_dir = "none" THEN [DriveScan0 EXCEPT !.err = "InvParam"]
    ELSE IF a.query_err \in {"MountPoint::query_all", "PhysicalDrive::query_all",
                             "query_partitions"}
         THEN [DriveScan0 EXCEPT !.err = a.query_err]
    ELSE LET st == ScanPartitions(DriveScan0, a.parts, a) IN
         IF st.err # "" THEN st
         ELSE IF st.boot_path = "none" THEN [st EXCEPT !.err = "Displayed"]
         ELSE IF st.work_path = "none" THEN [st EXCEPT !.err = "Displayed"]
         ELSE IF a.efi_boot = "efi" /\ st.efi_path = "none" THEN [st EXCEPT !.err = "Displayed"]
         ELSE st

MswinErr(e, invoked, drive_info) ==
    [ok |-> FALSE, err |-> e, invoked |-> invoked, boot_modified |-> FALSE,
     esp_mounted |-> drive_info.esp_mounted, drive_info |-> drive_info]

\* a: the results of is_efi_boot(), ps_info.is_secure_boot() and get_os_info(),
\* the host's answers to get_drive_info, the image file and the memory, and
\* the result of the checks of the other files
MswinMigrateInfoNew(a) ==
    IF a.efi_boot = "err" THEN MswinErr("Displayed", <<"is_efi_boot">>, DriveScan0)
    ELSE IF a.efi_boot = "bios" THEN MswinErr("Displayed", <<"is_efi_boot">>, DriveScan0)
    ELSE IF a.secure_boot = "err"
         THEN MswinErr("is_secure_boot", <<"is_efi_boot", "is_secure_boot">>, DriveScan0)
    ELSE IF a.secure_boot = "on"
         THEN MswinErr("Displayed", <<"is_efi_boot", "is_secure_boot">>, DriveScan0)
    ELSE IF ~a.os_info
         THEN MswinErr("Displayed", <<"is_efi_boot", "is_secure_boot", "get_os_info">>,
                       DriveScan0)
    ELSE LET drive_info == get_drive_info(a)
             invoked == <<"is_efi_boot", "is_secure_boot", "get_os_info", "get_drive_info">>
         IN  IF drive_info.err # "" THEN MswinErr("get_drive_info", invoked, drive_info)
             ELSE IF a.image # "ok"
                  THEN MswinErr("image_file", invoked \o <<"FileInfo">>, drive_info)
             ELSE IF TooLittleMemory(a.mem_tot, a.image_size)
                  THEN MswinErr("Displayed", invoked \o <<"FileInfo">>, drive_info)
             ELSE IF ~a.files
                  THEN MswinErr("Displayed", invoked \o <<"FileInfo">>, drive_info)
             ELSE [ok |-> TRUE, invoked |-> invoked \o <<"FileInfo">>,
                   boot_modified |-> FALSE, esp_mounted |-> drive_info.esp_mounted,
                   drive_info |-> drive_info]

(***************************************************************************)
(* LinuxMigrator::try_init (linux.rs lines 98-328) as a function of the    *)
(* host: a holds the host's answers to every query try_init may make.      *)
(***************************************************************************)
SUPPORTED_OSSES ==
    {"Ubuntu 18.04.2 LTS", "Ubuntu 16.04.2 LTS", "Ubuntu 14.04.2 LTS",
     "Raspbian GNU/Linux 9 (stretch)", "Debian GNU/Linux 9 (stretch)"}

\* SUPPORTED_OSSES of the Intel NUC (intel_nuc.rs lines 20-28)
NUC_SUPPORTED_OSSES ==
    {"Ubuntu 18.04.2 LTS", "Ubuntu 16.04.2 LTS", "Ubuntu 14.04.2 LTS", "Ubuntu 14.04.5 LTS"}

\* is_rpi(&dev_tree_model) and is_bb(&dev_tree_model) return Ok
IsRpi(model) ==
    model \in {"Raspberry Pi 3 Model B Rev 1.2", "Raspberry Pi 4 Model B Rev 1.1"}
IsBb(model) == model = "TI AM335x BeagleBone Black"

\* init_armhf (lines 367-397): the slug of the device found, or "err"
init_armhf(a) ==
    IF a.dev_tree = "err" THEN "err"
    ELSE IF IsRpi(a.dev_tree) THEN "raspberrypi3"
    ELSE IF IsBb(a.dev_tree) THEN "beaglebone"
    ELSE "err"

\* the match on os_arch (lines 146-165): the slug of the device, or "err"
DeviceInit(a) ==
    CASE a.os_arch = "ARMHF" -> init_armhf(a)
      [] a.os_arch = "AMD64" ->
            IF IntelNucFromConfig([a EXCEPT !.os_supported = a.os_name \in NUC_SUPPORTED_OSSES]).ok
            THEN "intel-nuc" ELSE "err"
      [] a.os_arch = "I386" -> "err"
      [] OTHER -> "err"

\* MigInfoSlug without the force_slug override
MigInfoSlugDetectedOnly(detected, force_slug) == detected

\* mig_info.device_slug after lines 167-188: the slug of the device found,
\* replaced by config.migrate.force_slug when that is set
MigInfoSlug(detected, force_slug) ==
    IF force_slug # "none" THEN force_slug ELSE detected

\* boot_required_space (lines 223, 234, 250)
BootRequiredSpace(a) == 8192 + a.kernel_size + a.initrd_size

\* kernel_path_info.fs_free < boot_required_space without the sizes of the files
TooLittleBootSpaceMarginOnly(fs_free, a) == fs_free < 8192

\* kernel_path_info.fs_free < boot_required_space (line 279)
TooLittleBootSpace(fs_free, a) == fs_free < BootRequiredSpace(a)

\* the space check (lines 259-283): the path looked at is /boot/efi on an
\* EFI-booted host and /boot otherwise; a path that get_disk_info left None
\* ends in panic!
BootSpaceCheck(a) ==
    LET disk_info == get_disk_info(a) IN
    IF a.efi_boot
    THEN IF disk_info.efi_path = "none" THEN "panic"
         ELSE IF TooLittleBootSpace(a.efi_free, a) THEN "err" ELSE "ok"
    ELSE IF disk_info.boot_path = "none" THEN "panic"
         ELSE IF TooLittleBootSpace(a.boot_free, a) THEN "err" ELSE "ok"

\* what a step of try_init finds on the host a: "ok", "err" (it returns an
\* error) or "panic"
CheckOutcome(check, a) ==
    CASE check = "ensure_cmds" -> IF a.cmds THEN "ok" ELSE "err"
      [] check = "is_admin" -> IF a.admin = "yes" THEN "ok" ELSE "err"
      [] check = "os_name" -> IF a.os_name \in SUPPORTED_OSSES THEN "ok" ELSE "err"
      [] check = "os_arch" -> IF a.os_arch # "err" THEN "ok" ELSE "err"
      [] check = "can_migrate" -> IF DeviceInit(a) # "err" THEN "ok" ELSE "err"
      [] check = "disk_info" ->
            IF get_disk_info(a).ok THEN "ok"
            ELSE IF get_disk_info(a).err = "panic" THEN "panic" ELSE "err"
      [] check = "min_disk_size" ->
            IF TooSmallDrive(get_disk_info(a).drive_size) THEN "err" ELSE "ok"
      [] check = "kernel_file" -> IF a.kernel = "ok" THEN "ok" ELSE "err"
      [] check = "initrd_file" -> IF a.initrd = "ok" THEN "ok" ELSE "err"
      [] check = "boot_space" -> BootSpaceCheck(a)
      [] check = "os_image" -> IF a.balena /\ a.image = "ok" THEN "ok" ELSE "err"
      [] check = "mem_info" ->
            IF a.mem_info = "ok" /\ ~TooLittleMemory(a.mem_tot, a.image_size)
            THEN "ok" ELSE "err"
      [] check = "balena_cfg" -> IF a.balena_cfg = "ok" THEN "ok" ELSE "err"

\* a step that did not pass ends try_init: return Err(..), '?' or panic!
StopsAt(outcome) == outcome # "ok"

RECURSIVE RunChecks(_, _, _)
\* the steps from the i-th on, after the steps in done
RunChecks(a, i, done) ==
    IF i > Len(TryInitChecks)
    THEN [ok |-> TRUE, checks |-> done, err |-> "none", panic |-> FALSE,
          device |-> DeviceInit(a),
          device_slug |-> MigInfoSlug(DeviceInit(a), a.force_slug),
          \* the argument of balena_cfg_json.check (line 314)
          cfg_check_slug |-> MigInfoSlug(DeviceInit(a), a.force_slug)]
    ELSE LET check == TryInitChecks[i]
             outcome == CheckOutcome(check, a)
         IN  IF StopsAt(outcome)
             THEN [ok |-> FALSE, checks |-> Append(done, check), err |-> check,
                   panic |-> outcome = "panic",
                   device |-> IF i > CheckIdx("can_migrate") THEN DeviceInit(a) ELSE "none",
                   device_slug |-> IF i > CheckIdx("can_migrate")
                                   THEN MigInfoSlug(DeviceInit(a), a.force_slug)
                                   ELSE "none",
                   cfg_check_slug |-> IF check = "balena_cfg" /\ a.balena_cfg = "rejected"
                                      THEN MigInfoSlug(DeviceInit(a), a.force_slug)
                                      ELSE "none"]
             ELSE RunChecks(a, i + 1, Append(done, check))

try_init(a) == RunChecks(a, 1, <<>>)

(***************************************************************************)
(* The functions of the program applied on their own, each to arguments    *)
(* drawn from a bounded set: call names the function and its arguments,    *)
(* ret becomes what it returns.  No run of migrate is under way.           *)
(***************************************************************************)
run_vars == <<pc, err, mode, boot, stage2_cfg_file, boot_type, bootmgr_path, system_time,
              dtb_idx, boot_cfg_bckup, s2_cfg_bckup, balena_config, config_str,
              cmdline_str, restore_res, boot0, stage2_cfg_file0, check_failed, setup_res,
              written, backed_up, digest, s2_writes, rebooted>>

NoRun ==
    /\ pc = "idle"
    /\ err = "none"
    /\ mode = "none"
    /\ boot = EmptyFs
    /\ stage2_cfg_file = NoFile
    /\ boot_type = "none"
    /\ bootmgr_path = FALSE
    /\ system_time = 0
    /\ dtb_idx = 0
    /\ boot_cfg_bckup = <<>>
    /\ s2_cfg_bckup = <<>>
    /\ balena_config = FALSE
    /\ config_str = <<>>
    /\ cmdline_str = <<>>
    /\ restore_res = "none"
    /\ boot0 = EmptyFs
    /\ stage2_cfg_file0 = NoFile
    /\ check_failed = FALSE
    /\ setup_res = "none"
    /\ written = {}
    /\ backed_up = {}
    /\ digest = [f \in BootTargets |-> "none"]
    /\ s2_writes = 0
    /\ rebooted = FALSE

\* the sequences over S of length at most n
SeqsUpTo(S, n) == UNION {[1 .. k -> S] : k \in 0 .. n}

\* the function fn was called and has returned
Called(fn) == call.fn = fn /\ ret.done

\* --- write_stage2_cfg followed by from_config ---
WorkDirs ==
    { <<"/home/pi/migrate">>, <<"/home/pi/o", "'", "neil">>, <<"it", "'", "'", "s">>,
      <<"/mnt/", "'">> }

BackupLists ==
    { <<>>,
      << << <<"config.txt">>, <<"config.txt.1">> >> >>,
      << << <<"bcm2710-rpi-3-b.dtb">>, <<"bcm2710-rpi-3-b.dtb-1">> >>,
         << <<"config.txt">>, <<"config.txt.1">> >>,
         << <<"cmdline.txt">>, <<"cmdline.txt.1">> >> >> }

Descriptors ==
    [efi_boot : BOOLEAN,
     device_slug : {<<"raspberrypi3">>, <<"intel-nuc">>},
     fail_mode : FailModes,
     balena_image : {<<"image.gz">>},
     balena_config : {<<"config.json">>},
     root_device : {<<"/dev/mmcblk0p2">>},
     boot_device : {<<KERNEL_CMD>>},
     work_dir : WorkDirs,
     bckup_cfg : BackupLists]

Stage2CfgCalls == {[fn |-> "stage2_cfg", d |-> d] : d \in Descriptors}

\* the descriptor written for call.d, then read back
Stage2CfgRoundTrip ==
    /\ call.fn = "stage2_cfg"
    /\ ~ret.done
    /\ ret' = Returned(from_config(CfgStr(call.d)))
    /\ UNCHANGED <<call, run_vars>>

\* --- cmdline_str of setup ---
CmdlineWords ==
    {"root=/dev/mmcblk0p2", "root=PARTUUID=1f2e-02", "rootfstype=ext4", "console=tty1",
     "console=ttyAMA0", "nfsroot=10.0.0.1:/srv/pi", "rootwait"}

RECURSIVE Join(_, _)
\* the words with sep between each two of them
Join(words, sep) ==
    IF Len(words) <= 1 THEN words
    ELSE <<Head(words), sep>> \o Join(Tail(words), sep)

\* the texts of cmdline.txt: words on one line or one word per line, with or
\* without a line end after the last
CmdlineTexts ==
    {Join(w, sep) \o last : w \in SeqsUpTo(CmdlineWords, MaxWords),
                            sep \in {" ", "\n"}, last \in {<<>>, <<"\n">>}}

CmdlineStrCalls ==
    {[fn |-> "cmdline_str", text |-> t, kernel_opts |-> o] :
        t \in CmdlineTexts, o \in KernelOpts}

CmdlineStrCall ==
    /\ call.fn = "cmdline_str"
    /\ ~ret.done
    /\ ret' = Returned(CmdlineStr(call.text, call.kernel_opts))
    /\ UNCHANGED <<call, run_vars>>

\* --- config_str of setup ---
ConfigLines ==
    {"kernel=kernel7.img", "initramfs foo followkernel", "  initramfs bar", "enable_uart=0",
     "arm_64bit=0", "dtparam=audio=on", "# kernel=old.img"}

RECURSIVE AfterRuns(_, _, _)
\* config.txt after n runs of setup on a host of boot type bt
AfterRuns(content, bt, n) ==
    IF n = 0 THEN content
    ELSE LET c == AfterRuns(content, bt, n - 1) IN ConfigStr(c, is_balena_file(c), bt)

\* the texts of config.txt: an original, or what earlier runs made of it
ConfigTexts(bt) ==
    {AfterRuns(c, bt, n) : c \in SeqsUpTo(ConfigLines, MaxLines), n \in 0 .. MaxRuns}

ConfigStrCalls ==
    UNION {{[fn |-> "config_str", content |-> c, boot_type |-> bt] : c \in ConfigTexts(bt)} :
              bt \in BootTypes}

ConfigStrCall ==
    /\ call.fn = "config_str"
    /\ ~ret.done
    /\ ret' = Returned(ConfigStr(call.content, is_balena_file(call.content),
                                 call.boot_type))
    /\ UNCHANGED <<call, run_vars>>

\* --- get_disk_info ---
LSBLK_HEADER == <<"S", "I", "Z", "E", " ", "U", "U", "I", "D">>

\* the data lines of lsblk's output
DataLines == SeqsUpTo({"1", "2", " ", "a"}, MaxChars)

LsblkOk(data) == [res |-> "exit0", stdout |-> <<LSBLK_HEADER, data>>]

\* what call_cmd(LSBLK_CMD, ..) may give: the command could not be run, or its
\* exit status and the lines of its output
LsblkResults ==
    {[res |-> r, stdout |-> o] : r \in {"spawn_err", "exit0", "exit1"},
                                 o \in {<<>>, <<LSBLK_HEADER>>}}
    \cup {[res |-> r, stdout |-> <<LSBLK_HEADER, d>>] : r \in {"exit0", "exit1"}, d \in DataLines}

\* every answer for the paths with one answer of lsblk, and one answer for
\* the paths (a host with / and /boot on one drive) with every answer of lsblk
GetDiskInfoCalls ==
    {[fn |-> "get_disk_info", boot |-> b, efi_boot |-> e, efi |-> f, work |-> w, root |-> r,
      lsblk |-> LsblkOk(<<"2", "1", " ", "a">>)] :
        b \in PathResults, e \in BOOLEAN, f \in PathResults, w \in {"err", "/dev/sda"},
        r \in PathResults}
    \cup
    {[fn |-> "get_disk_info", boot |-> "/dev/sda", efi_boot |-> FALSE, efi |-> "none",
      work |-> "/dev/sda", root |-> "/dev/sda", lsblk |-> l] : l \in LsblkResults}

GetDiskInfoCall ==
    /\ call.fn = "get_disk_info"
    /\ ~ret.done
    /\ ret' = Returned(get_disk_info(call))
    /\ UNCHANGED <<call, run_vars>>

\* --- the secure boot gates ---
SecureBootResults == {"err", "on", "off"}

IntelNucCalls ==
    {[fn |-> "IntelNuc", os_supported |-> o, secure_boot |-> sb, can_migrate |-> c,
      init_ok |-> i] :
        o \in BOOLEAN, sb \in SecureBootResults, c \in {"err", "yes", "no"}, i \in BOOLEAN}

IntelNucCall ==
    /\ call.fn = "IntelNuc"
    /\ ~ret.done
    /\ ret' = Returned(IntelNucSetup(call))
    /\ UNCHANGED <<call, run_vars>>

\* the partitions of the drive, in the order of the queries: the logical
\* drive of each ("err": the query fails, "none": it has none) and whether it
\* is the boot device
Partitions ==
    [ld : {"err", "none", "C:", "S:"}, boot_dev : BOOLEAN]

\* a host on which every query answers and the paths are found
GoodHost ==
    [fn |-> "MswinMigrateInfo", efi_boot |-> "efi", secure_boot |-> "off", os_info |-> TRUE,
     query_err |-> "none", sys_vols |-> 1, boot_vols |-> 1, boot_dir |-> "C:\\",
     work_root |-> "C:\\", mount_points |-> {"C:\\"}, path_info |-> TRUE, efi_dl |-> "",
     mount_efi |-> TRUE, efi_vfat |-> TRUE, efi_dir |-> "yes",
     parts |-> <<[ld |-> "C:", boot_dev |-> FALSE], [ld |-> "none", boot_dev |-> TRUE]>>,
     image |-> "ok", image_size |-> MemStep, mem_tot |-> MEM_THRESHOLD + MemStep,
     files |-> TRUE]

\* the hosts of the calls of MigrateInfo::new: the good host with the boot
\* mode and the secure boot state varied, with the volumes and the queries
\* varied, with the partitions and the ESP varied, and with the files and the
\* memory varied
MswinCalls ==
    {[GoodHost EXCEPT !.efi_boot = e, !.secure_boot = sb, !.os_info = o, !.files = f] :
        e \in {"err", "efi", "bios"}, sb \in SecureBootResults, o \in BOOLEAN, f \in BOOLEAN}
    \cup
    {[GoodHost EXCEPT !.query_err = q, !.sys_vols = sv, !.boot_vols = bv, !.boot_dir = bd] :
        q \in {"none", "canonicalize", "query_system_volumes", "query_boot_volumes",
               "MountPoint::query_all", "PhysicalDrive::query_all", "query_partitions"},
        sv \in 0..2, bv \in 0..2, bd \in {"none", "C:\\", "S:\\"}}
    \cup
    {[GoodHost EXCEPT !.parts = ps, !.mount_efi = me, !.efi_vfat = vf, !.efi_dir = ed,
                      !.path_info = pi, !.efi_dl = dl, !.mount_points = mp] :
        ps \in SeqsUpTo(Partitions, MaxParts), me \in BOOLEAN, vf \in BOOLEAN,
        ed \in {"err", "yes", "no"}, pi \in BOOLEAN, dl \in {"", "S:"},
        mp \in {{}, {"C:\\"}}}
    \cup
    {[GoodHost EXCEPT !.image = im, !.image_size = sz, !.mem_tot = mt, !.files = f] :
        im \in {"err", "none", "wrong_type", "ok"}, sz \in {0, MemStep},
        mt \in {MEM_THRESHOLD - 1, MEM_THRESHOLD, MEM_THRESHOLD + MemStep - 1,
                MEM_THRESHOLD + MemStep}, f \in BOOLEAN}

MswinMigrateInfoCall ==
    /\ call.fn = "MswinMigrateInfo"
    /\ ~ret.done
    /\ ret' = Returned(MswinMigrateInfoNew(call))
    /\ UNCHANGED <<call, run_vars>>

\* --- the chmod of the copied kernel ---
\* what call(CHMOD_CMD, ..) may meet: the command cannot be run, or it exits
\* with status 0 or 1
ChmodCalls == {[fn |-> "chmod", res |-> r] : r \in {"spawn_err", "exit0", "exit1"}}

\* setup's step after the copy of the kernel (raspi_boot_manager.rs line 181)
ChmodCall ==
    /\ call.fn = "chmod"
    /\ ~ret.done
    /\ ret' = Returned(ChmodNext(call.res))
    /\ UNCHANGED <<call, run_vars>>

\* --- setup on a boot manager, up to its bootmgr_path test ---
\* RaspiBootManager::setup from its entry to `if let Some(ref boot_path) =
\* self.bootmgr_path` (raspi_boot_manager.rs lines 150-219): what it returns
\* there, or "goes_on", and the files under /boot at that point
SetupToBootPath(a) ==
    LET b1 == copy(a.boot, WorkContent(RPI_MIG_KERNEL_NAME), RPI_MIG_KERNEL_NAME,
                   a.kernel_copy)
        b2 == copy(b1, WorkContent(RPI_MIG_INITRD_NAME), RPI_MIG_INITRD_NAME,
                   a.initrd_copy)
    IN  IF ~CopySucceeded(a.kernel_copy) THEN [res |-> "Upstream", boot |-> b1]
        ELSE IF KernelDigestNext(a.kernel_digest) = "failed"
        THEN [res |-> "Upstream", boot |-> b1]
        ELSE IF ChmodNext(a.chmod) = "failed" THEN [res |-> "Upstream", boot |-> b1]
        ELSE IF ~CopySucceeded(a.initrd_copy) THEN [res |-> "Upstream", boot |-> b2]
        ELSE IF InitrdDigestNext(a.initrd_digest) = "failed"
        THEN [res |-> "Upstream", boot |-> b2]
        ELSE IF ~a.bootmgr_path THEN [res |-> "NotFound", boot |-> b2]
        ELSE [res |-> "goes_on", boot |-> b2]

\* /boot of a host that was never migrated, and of one where an earlier run
\* left its kernel
SetupBoots ==
    { [f \in {RPI_CONFIG_TXT} |-> <<"dtparam=audio=on">>],
      [f \in {RPI_CONFIG_TXT, RPI_MIG_KERNEL_NAME} |->
          IF f = RPI_CONFIG_TXT THEN <<"dtparam=audio=on">> ELSE OldContent(f)] }

SetupCalls ==
    { [fn |-> "setup", boot |-> b, kernel_copy |-> kc, kernel_digest |-> kd,
       chmod |-> ch, initrd_copy |-> ic, initrd_digest |-> id, bootmgr_path |-> bp] :
        b \in SetupBoots, kc \in CopyOutcomes, kd \in {"ok", "mismatch"},
        ch \in {"exit0", "spawn_err"}, ic \in CopyOutcomes, id \in {"ok", "err"},
        bp \in BOOLEAN }

SetupCall ==
    /\ call.fn = "setup"
    /\ ~ret.done
    /\ ret' = Returned(SetupToBootPath(call))
    /\ UNCHANGED <<call, run_vars>>

\* --- try_init ---
\* sizes as lsblk -b prints them: 4 GiB, 2 GiB, one byte less, and u64::MAX + 1
FOUR_GIB == <<"4", "2", "9", "4", "9", "6", "7", "2", "9", "6">>
TWO_GIB == MIN_DISK_SIZE
TWO_GIB_LESS_ONE == <<"2", "1", "4", "7", "4", "8", "3", "6", "4", "7">>
ABOVE_U64 ==
    <<"1", "8", "4", "4", "6", "7", "4", "4", "0", "7", "3", "7", "0", "9", "5", "5", "1",
      "6", "1", "6">>

\* data lines of lsblk: sizes alone and with a UUID, one with leading zeros,
\* and lines that do not match LSBLK_REGEX
SizeLines ==
    {FOUR_GIB, TWO_GIB, TWO_GIB_LESS_ONE, ABOVE_U64, <<"0">> \o TWO_GIB, <<"2", "1">>,
     FOUR_GIB \o <<" ", "a">>, TWO_GIB_LESS_ONE \o <<" ", "a">>,
     <<>>, <<" ">> \o FOUR_GIB, <<"a">> \o FOUR_GIB, FOUR_GIB \o <<"a">>,
     <<"-", "1">>, <<"4", ".", "0", "G">>}

\* a Raspberry Pi 3 that passes every step of try_init
GoodPi ==
    [fn |-> "try_init", cmds |-> TRUE, admin |-> "yes",
     os_name |-> "Raspbian GNU/Linux 9 (stretch)", os_arch |-> "ARMHF",
     dev_tree |-> "Raspberry Pi 3 Model B Rev 1.2", secure_boot |-> "off",
     can_migrate |-> "yes", os_supported |-> TRUE,
     boot |-> "/dev/sda", efi_boot |-> FALSE, efi |-> "none", work |-> "/dev/sda",
     root |-> "/dev/sda", lsblk |-> LsblkOk(FOUR_GIB \o <<" ", "a">>),
     kernel |-> "ok", kernel_size |-> FileStep, initrd |-> "ok", initrd_size |-> FileStep,
     boot_free |-> 8192 + 2 * FileStep, efi_free |-> 0,
     balena |-> TRUE, image |-> "ok", image_size |-> MemStep, mem_info |-> "ok",
     mem_tot |-> MEM_THRESHOLD + MemStep, balena_cfg |-> "ok", force_slug |-> "none"]

FileResults == {"err", "none", "wrong_type", "ok"}

\* config.migrate.force_slug: not set, or a slug
ForceSlugs == {"none", "raspberrypi3", "intel-nuc", "fincm3"}

\* the hosts of the calls of try_init: the good host with the answers to the
\* steps up to the device detection varied, with the paths varied, with the
\* files and the free space varied, with the image and the memory varied, and
\* with the device and force_slug varied
TryInitCalls ==
    {[GoodPi EXCEPT !.cmds = c, !.admin = ad, !.os_name = on, !.os_arch = ar,
                    !.dev_tree = dt, !.secure_boot = sb, !.can_migrate = cm] :
        c \in BOOLEAN, ad \in {"err", "yes", "no"},
        on \in {"err", "Ubuntu 18.04.2 LTS", "Raspbian GNU/Linux 9 (stretch)", "Fedora 30"},
        ar \in {"err", "AMD64", "ARM64", "ARMHF", "I386", "MIPS"},
        dt \in {"err", "Raspberry Pi 3 Model B Rev 1.2", "Raspberry Pi 4 Model B Rev 1.1",
                "TI AM335x BeagleBone Black", "Other"},
        sb \in {"err", "on", "off"}, cm \in {"err", "yes", "no"}}
    \cup
    {[GoodPi EXCEPT !.os_arch = ar, !.os_name = "Ubuntu 18.04.2 LTS", !.boot = b,
                    !.efi_boot = e, !.efi = f, !.root = r, !.lsblk = LsblkOk(l),
                    !.efi_free = 8192 + 2 * FileStep] :
        ar \in {"AMD64", "ARMHF"}, b \in {"err", "none"} \cup Drives, e \in BOOLEAN,
        f \in {"err", "none"} \cup Drives, r \in {"err", "none"} \cup Drives,
        l \in {FOUR_GIB, <<"2", "1", " ", "a">>}}
    \cup
    {[GoodPi EXCEPT !.kernel = k, !.initrd = i, !.kernel_size = ks, !.initrd_size = is,
                    !.efi_boot = e, !.efi = IF e THEN "/dev/sda" ELSE "none",
                    !.boot_free = bf, !.efi_free = ef] :
        k \in FileResults, i \in FileResults, ks \in {0, FileStep}, is \in {0, FileStep},
        e \in BOOLEAN,
        bf \in {0, 8191, 8192, 8191 + FileStep, 8191 + 2 * FileStep, 8192 + 2 * FileStep},
        ef \in {0, 8192 + 2 * FileStep - 1, 8192 + 2 * FileStep}}
    \cup
    {[GoodPi EXCEPT !.balena = b, !.image = im, !.image_size = sz, !.mem_info = mi,
                    !.mem_tot = mt, !.balena_cfg = bc] :
        b \in BOOLEAN, im \in FileResults, sz \in {0, MemStep}, mi \in {"err", "ok"},
        mt \in {MemStep, MEM_THRESHOLD - 1, MEM_THRESHOLD, MEM_THRESHOLD + MemStep - 1,
                MEM_THRESHOLD + MemStep},
        bc \in {"err", "none", "ok"}}
    \cup
    {[GoodPi EXCEPT !.os_name = "Ubuntu 18.04.2 LTS", !.os_arch = ar, !.dev_tree = dt,
                    !.force_slug = fs, !.balena_cfg = bc] :
        ar \in {"AMD64", "ARMHF"},
        dt \in {"Raspberry Pi 3 Model B Rev 1.2", "TI AM335x BeagleBone Black"},
        fs \in ForceSlugs, bc \in {"rejected", "ok"}}
    \cup
    {[GoodPi EXCEPT !.lsblk = [res |-> r, stdout |-> <<LSBLK_HEADER, l>>]] :
        r \in {"exit0", "exit1"}, l \in SizeLines}

TryInitCall ==
    /\ call.fn = "try_init"
    /\ ~ret.done
    /\ ret' = Returned(try_init(call))
    /\ UNCHANGED <<call, run_vars>>

\* --- RaspiBootManager::can_migrate ---
CanMigrateCalls ==
    {[fn |-> "can_migrate", boot_type |-> bt, dir |-> d, pinfo |-> p, work_files |-> w,
      configured |-> c] :
        bt \in BootTypes, d \in {"yes", "no", "err"}, p \in {"some", "none", "err"},
        w \in SUBSET AllDtbNames, c \in SUBSET AllDtbNames}

CanMigrateCall ==
    /\ call.fn = "can_migrate"
    /\ ~ret.done
    /\ ret' = Returned(can_migrate(call.dir, call.pinfo,
                                   MissingDtbs(call.boot_type, call.work_files,
                                               call.configured)))
    /\ UNCHANGED <<call, run_vars>>

\* --- from_config on files that write_stage2_cfg did not write ---

\* the descriptor whose file the variations start from
WrittenDescriptor ==
    [efi_boot |-> TRUE, device_slug |-> <<"raspberrypi3">>, fail_mode |-> "Rescue",
     balena_image |-> <<"image.gz">>, balena_config |-> <<"config.json">>,
     root_device |-> <<"/dev/mmcblk0p2">>, boot_device |-> <<KERNEL_CMD>>,
     work_dir |-> <<"/home/pi/migrate">>,
     bckup_cfg |-> << <<<<"config.txt">>, <<"config.txt.1">> >> >>]

\* the top-level keys of the file
TopKeys ==
    {"efi_boot: ", "device_slug: ", "fail_mode: ", "balena_image: ", "balena_config: ",
     "root_device: ", "boot_device: ", "work_dir: ", "backup_config:"}

\* the keys from_config reads with unwrap()
UnwrappedKeys == TopKeys \ {"fail_mode: "}

\* the file as a sequence of blocks: a line, or the backup_config line with
\* the lines of its array
Blocks(lines) ==
    LET idx == BackupConfigIdx(lines)
    IN  [i \in 1 .. idx |->
            IF i = idx THEN SubSeq(lines, idx, Len(lines)) ELSE <<lines[i]>>]

RECURSIVE Flatten(_)
Flatten(blocks) ==
    IF blocks = <<>> THEN <<>> ELSE Head(blocks) \o Flatten(Tail(blocks))

RECURSIVE Reverse(_)
Reverse(seq) ==
    IF seq = <<>> THEN <<>> ELSE Reverse(Tail(seq)) \o <<Head(seq)>>

\* texts for the value of fail_mode: a mode, a string that names none, and
\* values that are no strings
FailModeTexts ==
    {Quoted(<<"Rescue">>), <<"Halt">>, Quoted(<<"Foo">>), Quoted(<<>>), <<"1">>, <<"true">>, <<>>}

\* the fail_mode line of a file: one of the texts, or no line
FailModeLines ==
    {[present |-> TRUE, text |-> t] : t \in FailModeTexts}
        \cup {[present |-> FALSE, text |-> <<>>]}

UNKNOWN_KEY_LINE == <<"wifi_ssid: ", Quoted(<<"home">>)>>

\* one file: the written file with a key line dropped or its value replaced,
\* fail_mode given another value, the blocks in another order, a line with
\* an unknown key added, and that document zero, one or two times
VariedFile(v) ==
    LET base == Blocks(CfgStr(WrittenDescriptor))
        valued == [i \in DOMAIN base |->
                      IF base[i][1][1] = "fail_mode: "
                      THEN << <<"fail_mode: ", v.fail_mode.text>> >>
                      ELSE IF base[i][1][1] = v.key /\ v.change = "retyped"
                      THEN << <<v.key, <<"1">> >> >> \o Tail(base[i])
                      ELSE base[i]]
        kept == SelectSeq(valued, LAMBDA b :
                    /\ ~(b[1][1] = "fail_mode: " /\ ~v.fail_mode.present)
                    /\ ~(b[1][1] = v.key /\ v.change = "dropped"))
        ordered == IF v.reversed THEN Reverse(kept) ELSE kept
        known == Flatten(ordered)
        doc == IF v.unknown THEN <<UNKNOWN_KEY_LINE>> \o known ELSE known
    IN  CASE v.docs = 0 -> << <<"# Balena Migrate Stage2 Config", <<>> >> >>
          [] v.docs = 1 -> doc
          [] v.docs = 2 -> doc \o <<DOC_START>> \o doc
          [] OTHER -> <<DOC_START>> \o doc

Variations ==
    [key : UnwrappedKeys \ {"backup_config:"}, change : {"none", "dropped", "retyped"},
     fail_mode : FailModeLines, reversed : BOOLEAN, unknown : BOOLEAN,
     docs : {1}]
    \cup [key : {"backup_config:"}, change : {"dropped"},
          fail_mode : FailModeLines, reversed : BOOLEAN, unknown : BOOLEAN,
          docs : {1}]
    \cup [key : {"efi_boot: "}, change : {"none"},
          fail_mode : FailModeLines, reversed : BOOLEAN, unknown : BOOLEAN,
          docs : {0, 2, 3}]

FromConfigCalls == {[fn |-> "from_config", v |-> v] : v \in Variations}

FromConfigCall ==
    /\ call.fn = "from_config"
    /\ ~ret.done
    /\ ret' = Returned(from_config(VariedFile(call.v)))
    /\ UNCHANGED <<call, run_vars>>

Calls ==
    FromConfigCalls \cup SetupCalls \cup TryInitCalls \cup CanMigrateCalls \cup ChmodCalls \cup Stage2CfgCalls \cup CmdlineStrCalls \cup ConfigStrCalls \cup GetDiskInfoCalls
        \cup IntelNucCalls \cup MswinCalls

FnInit == NoRun /\ call \in Calls /\ ret = NotReturned

FnNext ==
    \/ Stage2CfgRoundTrip
    \/ CmdlineStrCall
    \/ ConfigStrCall
    \/ GetDiskInfoCall
    \/ IntelNucCall
    \/ MswinMigrateInfoCall
    \/ ChmodCall
    \/ TryInitCall
    \/ CanMigrateCall
    \/ SetupCall
    \/ FromConfigCall

FnSpec == FnInit /\ [][FnNext]_vars

(***************************************************************************)
(* Properties.                                                             *)
(***************************************************************************)
\* the run is somewhere in try_init or at migrate's match on the mode
Validating == pc \in Range(TryInitChecks) \cup {"mode"}

\* every recorded backup entry of the list has its backup file under /boot
BackupsPresent(bckups) == \A i \in DOMAIN bckups : file_exists(boot, bckups[i][2])

\* the list records a backup of f that holds f's content from before the run
HasPreRunBackup(bckups, f) ==
    \E i \in DOMAIN bckups :
        /\ bckups[i][1] = f
        /\ file_exists(boot, bckups[i][2])
        /\ boot[bckups[i][2]] = boot0[f]

\* the boot files setup overwrites in place when they exist
Overwritten == AllDtbNames \cup {RPI_CONFIG_TXT, RPI_CMDLINE_TXT}

\* the files of Overwritten that setup backs up: every DTB, and config.txt and
\* cmdline.txt unless config.txt carried the marker before the run
BackupDue ==
    AllDtbNames \cup
    (IF file_exists(boot0, RPI_CONFIG_TXT) /\ ~is_balena_file(boot0[RPI_CONFIG_TXT])
     THEN {RPI_CONFIG_TXT, RPI_CMDLINE_TXT} ELSE {})

\* C1: once a validation step has failed, no file under /boot and no descriptor
\* has been created or changed and neither setup nor write_stage2_cfg has run;
\* and throughout validation, can_migrate included, the host's files are as
\* they were.
C1_FailedValidationLeavesHostUntouched ==
    /\ check_failed =>
          /\ boot = boot0
          /\ stage2_cfg_file = stage2_cfg_file0
          /\ written = {}
          /\ setup_res = "none"
          /\ s2_writes = 0
          /\ ~rebooted
    /\ Validating => boot = boot0 /\ stage2_cfg_file = stage2_cfg_file0

C1_Witness == pc = "failed" /\ check_failed /\ err = "can_migrate_false" /\ DOMAIN boot0 # {}

\* C2 (as claimed): every pre-existing DTB, config.txt and cmdline.txt that setup
\* has started to write has a backup, completed before that write, that holds
\* the file's pre-run content.
C2_BackupBeforeEveryOverwrite ==
    \A f \in (written \cap DOMAIN boot0) \cap Overwritten :
        f \in backed_up /\ HasPreRunBackup(boot_cfg_bckup, f)

\* C2 (amended): the same for every pre-existing DTB, and for config.txt and
\* cmdline.txt when config.txt did not carry the balena-migrate marker.
C2_BackupBeforeOverwriteUnlessMarked ==
    \A f \in (written \cap DOMAIN boot0) \cap BackupDue :
        f \in backed_up /\ HasPreRunBackup(boot_cfg_bckup, f)

C2_Witness ==
    /\ RPI_CMDLINE_TXT \in written
    /\ RPI_CONFIG_TXT \in BackupDue
    /\ \E d \in AllDtbNames : d \in written \cap DOMAIN boot0

\* C3: when setup has failed after writing under /boot, restore has run by the
\* time the error is returned.
C3_RestoreRunsWhenSetupFails ==
    (pc = "failed" /\ setup_res = "err" /\ written # {}) => restore_res # "none"

\* C4: write_stage2_cfg is entered at most once and only after setup returned
\* Ok; when setup returned an error the descriptor file is as it was and no
\* reboot is issued.
C4_DescriptorOnlyAfterSetupOk ==
    /\ s2_writes <= 1
    /\ (s2_writes > 0 \/ stage2_cfg_file # stage2_cfg_file0 \/ rebooted) => setup_res = "ok"
    /\ setup_res = "err" =>
          /\ pc = "failed"
          /\ stage2_cfg_file = stage2_cfg_file0
          /\ s2_writes = 0
          /\ ~rebooted

C4_Witness == setup_res = "err" /\ RPI_CMDLINE_TXT \in written /\ stage2_cfg_file0.exists

\* C5: a copied kernel, initramfs or DTB whose digest does not match makes setup
\* fail, and no such copy is left unchecked once setup has returned Ok.
C5_DigestMismatchFailsSetup ==
    \A f \in {RPI_MIG_KERNEL_NAME, RPI_MIG_INITRD_NAME} \cup AllDtbNames :
        /\ digest[f] = "mismatch" => pc = "failed"
        /\ setup_res = "ok" => digest[f] \in {"none", "ok"}

\* C6: write_stage2_cfg runs only when every file the run copied or rewrote
\* under /boot has passed its digest check.
C6_DescriptorAfterAllVerified ==
    s2_writes > 0 => \A f \in written \cap BootTargets : digest[f] = "ok"

RECURSIVE ApplyBackupsReverse(_, _)
\* /boot after copying each backup of the list over its original, last entry first
ApplyBackupsReverse(fs, bckups) ==
    IF bckups = <<>> THEN fs
    ELSE LET e == bckups[Len(bckups)]
             next == IF file_exists(fs, e[2]) THEN PutFile(fs, e[1], fs[e[2]]) ELSE fs
         IN  ApplyBackupsReverse(next, SubSeq(bckups, 1, Len(bckups) - 1))

\* the run returned Ok after setup and write_stage2_cfg
Succeeded == pc = "done" /\ setup_res = "ok"

\* C7 (as claimed): after a successful run, applying the recorded backups in
\* reverse order gives every pre-existing file the run wrote its pre-run content.
C7_BackupsRestoreEveryTouchedFile ==
    Succeeded =>
        LET r == ApplyBackupsReverse(boot, s2_cfg_bckup) IN
        \A f \in written \cap DOMAIN boot0 : r[f] = boot0[f]

\* C7 (amended): after a successful run, applying the recorded backups in
\* reverse order gives every pre-existing DTB the run replaced, and config.txt
\* and cmdline.txt when config.txt did not carry the marker, its pre-run content.
C7_BackupsRestoreBackedUpFiles ==
    Succeeded =>
        LET r == ApplyBackupsReverse(boot, s2_cfg_bckup) IN
        \A f \in (written \cap DOMAIN boot0) \cap BackupDue : r[f] = boot0[f]

C7_Witness ==
    /\ Succeeded
    /\ Len(s2_cfg_bckup) >= 3
    /\ RPI_CMDLINE_TXT \in BackupDue

\* C8: restore returns true exactly when every entry of the backup list was
\* reverted: the original holds the backup's content and the backup is gone.
C8_RestoreTrueIffAllReverted ==
    restore_res # "none" =>
        (restore_res = "true" <=>
            \A i \in DOMAIN s2_cfg_bckup :
                /\ ~file_exists(boot, s2_cfg_bckup[i][2])
                /\ boot[s2_cfg_bckup[i][1]] = boot0[s2_cfg_bckup[i][1]])

\* C9 (as claimed): once setup has started, the descriptor file exists if and
\* only if every backup recorded so far has its backup file.
C9_DescriptorIffBackupsPresent ==
    setup_res # "none" => (stage2_cfg_file.exists <=> BackupsPresent(boot_cfg_bckup))

\* C9 (amended): once setup has started, the descriptor file exists only if
\* every backup recorded so far, and every backup handed to the descriptor, has
\* its backup file.
C9_DescriptorOnlyIfBackupsPresent ==
    (setup_res # "none" /\ stage2_cfg_file.exists) =>
        BackupsPresent(boot_cfg_bckup) /\ BackupsPresent(s2_cfg_bckup)

C9_Witness ==
    /\ pc = "reboot"
    /\ Len(boot_cfg_bckup) >= 2
    /\ stage2_cfg_file.lines = Stage2CfgStr(boot_type, boot_cfg_bckup)

\* C10: the file at the descriptor's final path is always either as it was
\* before the run or the complete new descriptor.
C10_DescriptorNeverPartial ==
    \/ stage2_cfg_file = stage2_cfg_file0
    \/ /\ stage2_cfg_file.exists
       /\ stage2_cfg_file.lines = Stage2CfgStr(boot_type, s2_cfg_bckup)

\* C11: the text write_stage2_cfg emits for a descriptor is parsed by
\* from_config into a descriptor with the same fields and the same backup
\* entries in the same order.
C11_DescriptorRoundTrip ==
    Called("stage2_cfg") => ret.val.ok /\ ret.val.cfg = call.d

\* the words of a text, without the whitespace between them
Words(toks) == SelectSeq(toks, LAMBDA a : ~IsSpace(a))

\* the positions of the words of toks that begin with the key of cls (root=, ...)
KeyTokens(toks, cls) ==
    {i \in DOMAIN toks : TokClass(toks[i]) = cls /\ MatchPrefix(toks[i]) = ""}

\* C12: the generated cmdline.txt has exactly one root= token, which names the
\* kernel device of /boot's partition, and exactly one rootfstype= token, which
\* names the detected file system type.
C12_OneRootOneRootfstype ==
    Called("cmdline_str") =>
        /\ Cardinality(KeyTokens(ret.val, "root")) = 1
        /\ \A i \in KeyTokens(ret.val, "root") : ret.val[i] = ROOT_FRAGMENT
        /\ Cardinality(KeyTokens(ret.val, "rootfstype")) = 1
        /\ \A i \in KeyTokens(ret.val, "rootfstype") : ret.val[i] = ROOTFS_FRAGMENT

\* the words of toks in which none of the three expressions finds a match
OtherWords(toks) == SelectSeq(Words(toks), LAMBDA t : TokClass(t) = "other")

\* C13: the generated cmdline.txt holds no console= token of the input; after
\* the input's remaining tokens come console=tty1 and console=serial0,115200,
\* and after these the caller's kernel options.
C13_ConsoleReplaced ==
    Called("cmdline_str") =>
        LET out == Words(ret.val)
            opts == Words(call.kernel_opts)
            n == Len(out) - Len(opts)
        IN  /\ n >= 2
            /\ out[n - 1] = "console=tty1"
            /\ out[n] = "console=serial0,115200"
            /\ \A i \in 1 .. n - 2 : TokClass(out[i]) # "console"
            /\ OtherWords(SubSeq(out, 1, n - 2)) = OtherWords(call.text)
            /\ SubSeq(out, n + 1, Len(out)) = opts

C13_Witness ==
    /\ Called("cmdline_str")
    /\ Cardinality(KeyTokens(call.text, "console")) >= 2
    /\ OtherWords(call.text) # <<>>
    /\ call.kernel_opts # <<>>

\* C14: the generated cmdline.txt is one line: its last character is a line
\* end and it holds no other.
C14_SingleLineOneNewline ==
    Called("cmdline_str") =>
        /\ ret.val[Len(ret.val)] = "\n"
        /\ \A i \in 1 .. Len(ret.val) - 1 : ret.val[i] # "\n"

\* the positions of the lines of content that kernel_re, initrd_re or
\* sixty4_bits_re matches: the active lines of the kind
ActiveKernel(content) == {i \in DOMAIN content : kernel_re(content[i])}
ActiveInitrd(content) == {i \in DOMAIN content : initrd_re(content[i])}
Active64Bit(content) == {i \in DOMAIN content : sixty4_bits_re(content[i])}

\* C15: the generated config.txt has exactly one active kernel line and exactly
\* one active initramfs line; on a Pi-64 it has exactly one active arm_64bit
\* line, arm_64bit=1, and every arm_64bit line of the input is commented out.
C15_OneActiveKernelInitrd64Bit ==
    Called("config_str") =>
        LET out == ret.val
            first == Len(out) - Len(call.content) - 3 - (IF call.boot_type = "Raspi64" THEN 1 ELSE 0)
        IN  /\ Cardinality(ActiveKernel(out)) = 1
            /\ Cardinality(ActiveInitrd(out)) = 1
            /\ call.boot_type = "Raspi64" =>
                  /\ Cardinality(Active64Bit(out)) = 1
                  /\ \A i \in Active64Bit(out) : out[i] = NEW_64BIT_LINE
                  /\ \A i \in Active64Bit(call.content) :
                        out[first + i] = "# " \o call.content[i]

C15_Witness ==
    /\ Called("config_str")
    /\ call.boot_type = "Raspi64"
    /\ is_balena_file(call.content)
    /\ Active64Bit(call.content) # {}
    /\ \E i \in DOMAIN call.content : call.content[i] = "# arm_64bit=0"
    /\ ActiveKernel(call.content) # {}

\* C16: after setup on a Pi (not 64 bit) whose config.txt had no marker,
\* config.txt holds every line of the original in order, the initramfs, kernel
\* and enable_uart lines behind "# " and the others as they were, then
\* enable_uart=1, the initramfs line and the kernel line as its last three
\* lines; and config.txt.<ts> holds the original content.
C16_ConfigRewrittenAndBackedUp ==
    (/\ setup_res = "ok"
     /\ boot_type = "Raspi"
     /\ file_exists(boot0, RPI_CONFIG_TXT)
     /\ ~is_balena_file(boot0[RPI_CONFIG_TXT])) =>
        LET old == boot0[RPI_CONFIG_TXT]
            new == boot[RPI_CONFIG_TXT]
            first == Len(new) - 3 - Len(old)
        IN  /\ first >= 0
            /\ SubSeq(new, Len(new) - 2, Len(new))
                  = <<NEW_UART_LINE, NEW_INITRD_LINE, NEW_KERNEL_LINE>>
            /\ \A i \in DOMAIN old :
                  new[first + i] =
                      IF initrd_re(old[i]) \/ kernel_re(old[i]) \/ uart_re(old[i])
                      THEN "# " \o old[i] ELSE old[i]
            /\ file_exists(boot, ConfigBackupFile(system_time))
            /\ boot[ConfigBackupFile(system_time)] = old

\* how often the marker line occurs in a text
MarkerCount(content) == Cardinality({i \in DOMAIN content : content[i] = BALENA_FILE_TAG})

\* setup's list records a backup of config.txt under config.txt.<unix seconds>
ConfigBackupRecorded ==
    \E i \in DOMAIN boot_cfg_bckup :
        boot_cfg_bckup[i] = <<RPI_CONFIG_TXT, ConfigBackupFile(system_time)>>

\* C17: once setup has built the new config.txt, it has recorded a backup of
\* config.txt exactly when the config.txt it found had no marker line; the new
\* text holds the marker exactly once, also when the one found was the output
\* of an earlier run; and a config.txt with the marker is still rewritten.
C17_ConfigBackupIffNoMarker ==
    /\ config_str # <<>> =>
          /\ ConfigBackupRecorded <=> ~is_balena_file(boot0[RPI_CONFIG_TXT])
          /\ MarkerCount(config_str) = 1
    /\ (setup_res = "ok" /\ is_balena_file(boot0[RPI_CONFIG_TXT])) =>
          /\ RPI_CONFIG_TXT \in written
          /\ ~ConfigBackupRecorded

C17_Witness ==
    /\ setup_res = "ok"
    /\ is_balena_file(boot0[RPI_CONFIG_TXT])
    /\ boot[RPI_CONFIG_TXT] = config_str
    /\ boot_cfg_bckup # <<>>

LsblkLineRead ==
    /\ Called("get_disk_info")
    /\ call.root \in Drives
    /\ call.boot = call.root
    /\ call.work # "err"
    /\ call.efi_boot => call.efi \in {"none", call.root}
    /\ call.lsblk.res = "exit0"
    /\ Len(call.lsblk.stdout) >= 2

AllDigits(text) == text # <<>> /\ \A i \in 1..Len(text) : text[i] \in Digits

NoBlank(text) == text # <<>> /\ \A i \in 1..Len(text) : ~IsSpace(text[i])

\* C20: when the data line of lsblk's output is a decimal size, one blank and
\* a UUID, get_disk_info reports that number as drive_size and that text as
\* drive_uuid; when the data line is a decimal size and nothing else but
\* blanks, get_disk_info succeeds with that number as drive_size and the empty
\* drive_uuid.
C20_LsblkSizeUuid ==
    LsblkLineRead =>
        LET line == call.lsblk.stdout[2] IN
        /\ AllDigits(line) =>
              /\ ret.val.ok
              /\ ret.val.drive_size = ParseU64(line)
              /\ ret.val.drive_uuid = <<>>
        /\ \A k \in 1..Len(line) :
              (/\ AllDigits(SubSeq(line, 1, k))
               /\ \A i \in (k + 1)..Len(line) : line[i] = " ") =>
                  /\ ret.val.ok
                  /\ ret.val.drive_size = ParseU64(SubSeq(line, 1, k))
                  /\ ret.val.drive_uuid = <<>>
        /\ \A k \in 1..Len(line) :
              (/\ AllDigits(SubSeq(line, 1, k))
               /\ k + 1 < Len(line)
               /\ line[k + 1] = " "
               /\ NoBlank(SubSeq(line, k + 2, Len(line)))) =>
                  /\ ret.val.ok
                  /\ ret.val.drive_size = ParseU64(SubSeq(line, 1, k))
                  /\ ret.val.drive_uuid = SubSeq(line, k + 2, Len(line))

C20_Witness ==
    /\ LsblkLineRead
    /\ call.lsblk.stdout[2] = <<"2", "1">>
    /\ ret.val.ok
    /\ ret.val.drive_size = <<"2", "1">>
    /\ ret.val.drive_uuid = <<>>

InvokedSet(invoked) == {invoked[i] : i \in 1..Len(invoked)}

\* C19: with secure boot reported enabled, IntelNuc::from_config fails
\* without a call of the boot manager's can_migrate, no device is returned for
\* setup to run on and nothing under /boot is modified; on Windows booted
\* through EFI, MigrateInfo::new fails right after the secure boot query,
\* before the drives are looked at.
C19_SecureBootStopsInit ==
    /\ (Called("IntelNuc") /\ call.os_supported /\ call.secure_boot = "on") =>
          /\ ~ret.val.ok
          /\ InvokedSet(ret.val.invoked) \cap {"can_migrate", "setup"} = {}
          /\ ~ret.val.boot_modified
    /\ (Called("MswinMigrateInfo") /\ call.efi_boot = "efi" /\ call.secure_boot = "on") =>
          /\ ~ret.val.ok
          /\ ret.val.invoked = <<"is_efi_boot", "is_secure_boot">>
          /\ ~ret.val.boot_modified

C19_Witness ==
    /\ Called("IntelNuc")
    /\ call.os_supported
    /\ call.secure_boot = "on"
    /\ call.can_migrate = "yes"
    /\ call.init_ok
    /\ ~ret.val.ok
    /\ ret.val.invoked = <<"is_secure_boot">>

\* the ESP of the host of the call had no drive letter: the first partition
\* that is the boot device has no logical drive
EspUnmountedBefore ==
    \E i \in DOMAIN call.parts :
        /\ call.parts[i].boot_dev
        /\ call.parts[i].ld = "none"

\* C21: when MigrateInfo::new fails on a Windows host whose ESP had no drive
\* letter, the ESP has no drive letter from the run afterwards (it is in the
\* mount state it had before).
C21_EspLeftAsFound ==
    (Called("MswinMigrateInfo") /\ EspUnmountedBefore /\ ~ret.val.ok) => ~ret.val.esp_mounted

\* the reboot command was issued after write_stage2_cfg wrote the whole
\* descriptor and returned Ok
RebootAfterDescriptor ==
    rebooted =>
        /\ setup_res = "ok"
        /\ s2_writes > 0
        /\ stage2_cfg_file.exists
        /\ stage2_cfg_file.lines = Stage2CfgStr(boot_type, s2_cfg_bckup)

\* a failure of write_stage2_cfg ends the run with its error and without reboot
NoRebootAfterFailedWrite ==
    err \in {"stage2_create", "stage2_write"} => pc = "failed" /\ ~rebooted

\* C22: the reboot is issued only after write_stage2_cfg returned success with
\* the descriptor on disk, and not at all when the write of the descriptor
\* failed.
C22_RebootAfterDurableDescriptor ==
    /\ RebootAfterDescriptor
    /\ NoRebootAfterFailedWrite
    /\ rebooted => stage2_cfg_file.synced

\* C23: a command that exits with a status other than 0 makes the step that
\* called it fail: setup after chmod, get_disk_info after lsblk.
C23_ExitStatusChecked ==
    /\ (Called("chmod") /\ call.res # "exit0") => ret.val = "failed"
    /\ (Called("get_disk_info") /\ call.lsblk.res # "exit0"
            /\ call.root \in Drives /\ call.boot = call.root) => ~ret.val.ok

\* the part of C23 about lsblk
LsblkExitStatusChecked ==
    (Called("get_disk_info") /\ call.lsblk.res # "exit0") => ~ret.val.ok

\* the free space of the file system that receives the kernel and the
\* initramfs on the host of the call: /boot/efi's on an EFI-booted host,
\* /boot's otherwise
KernelFsFree == IF call.efi_boot THEN call.efi_free ELSE call.boot_free

\* C24: try_init returns Ok only when the free space of the file system that
\* receives the kernel and the initramfs is at least kernel size + initramfs
\* size + 8192 bytes.
C24_BootSpaceRequired ==
    (Called("try_init") /\ ret.val.ok) =>
        KernelFsFree >= call.kernel_size + call.initrd_size + 8192

C24_Witness ==
    /\ Called("try_init")
    /\ call.kernel_size = FileStep
    /\ call.initrd_size = FileStep
    /\ ~call.efi_boot
    /\ call.boot_free = 8191 + 2 * FileStep
    /\ ~ret.val.ok
    /\ ret.val.err = "boot_space"
    /\ ~ret.val.panic

DeviceStepReached ==
    /\ Called("try_init")
    /\ Len(ret.val.checks) >= CheckIdx("can_migrate")

\* the profiles of the hosts other than ARM64 hosts
ProfilesButArm64 ==
    DeviceStepReached =>
        /\ (/\ call.os_arch = "AMD64"
            /\ call.os_name = "Ubuntu 18.04.2 LTS"
            /\ call.secure_boot = "off"
            /\ call.can_migrate = "yes") => ret.val.device = "intel-nuc"
        /\ (/\ call.os_arch = "ARMHF"
            /\ call.dev_tree \in {"Raspberry Pi 3 Model B Rev 1.2",
                                  "Raspberry Pi 4 Model B Rev 1.1"}) =>
              ret.val.device = "raspberrypi3"
        /\ (call.os_arch = "ARMHF" /\ call.dev_tree = "TI AM335x BeagleBone Black") =>
              ret.val.device = "beaglebone"
        /\ (\/ call.os_arch \in {"I386", "MIPS"}
            \/ call.os_arch = "ARMHF" /\ call.dev_tree \in {"err", "Other"}) =>
              ~ret.val.ok /\ ~ret.val.panic /\ ret.val.err = "can_migrate"

\* C26: try_init gives an AMD64 host the intel-nuc profile, an ARMHF host the
\* Raspberry Pi profile or else the BeagleBone profile by its device-tree
\* model, an ARM64 host with the model of a Pi 4 the Raspberry-Pi-64 profile,
\* and fails with an error for every other architecture or model.
C26_ClassificationTotal ==
    /\ ProfilesButArm64
    /\ (/\ DeviceStepReached
        /\ call.os_arch = "ARM64"
        /\ call.dev_tree = "Raspberry Pi 4 Model B Rev 1.1") =>
          ret.val.device = "raspberrypi4-64"

\* the DTB files the variant of the call requires
RequiredDtbs ==
    IF call.boot_type = "Raspi"
    THEN {"bcm2710-rpi-3-b.dtb", "bcm2710-rpi-3-b-plus.dtb"}
    ELSE {"bcm2711-rpi-4-b.dtb"}

\* C27: RaspiBootManager::can_migrate returns true only when /boot exists,
\* its partition was resolved and every DTB file the variant requires is in
\* the work directory; with /boot and its partition found, a required DTB
\* file that is not in the work directory makes it return false, whether or
\* not the file is among the configured device_tree files.
C27_CanMigrateNeedsDtbs ==
    Called("can_migrate") =>
        /\ ret.val = "true" =>
              /\ call.dir = "yes"
              /\ call.pinfo = "some"
              /\ RequiredDtbs \subseteq call.work_files
        /\ (/\ call.dir = "yes"
            /\ call.pinfo = "some"
            /\ ~(RequiredDtbs \subseteq call.work_files)) => ret.val = "false"

C27_Witness ==
    /\ Called("can_migrate")
    /\ call.boot_type = "Raspi"
    /\ call.dir = "yes"
    /\ call.pinfo = "some"
    /\ call.work_files = {"bcm2710-rpi-3-b.dtb"}
    /\ call.configured = {"bcm2710-rpi-3-b.dtb", "bcm2710-rpi-3-b-plus.dtb"}
    /\ ret.val = "false"

\* C28: MigrateInfo::new returns Ok only on a host booted through EFI with
\* secure boot off, with exactly one system volume and exactly one boot
\* volume, and with the boot path, the work path and the EFI path found.
C28_MswinOkOnlyIf ==
    (Called("MswinMigrateInfo") /\ ret.val.ok) =>
        /\ call.efi_boot = "efi"
        /\ call.secure_boot = "off"
        /\ call.sys_vols = 1
        /\ call.boot_vols = 1
        /\ ret.val.drive_info.boot_path # "none"
        /\ ret.val.drive_info.work_path # "none"
        /\ ret.val.drive_info.efi_path # "none"

C28_Witness ==
    /\ Called("MswinMigrateInfo")
    /\ call.efi_boot = "efi"
    /\ call.secure_boot = "off"
    /\ call.sys_vols = 2
    /\ call.boot_vols = 1
    /\ call.query_err = "none"
    /\ ~ret.val.ok
    /\ ret.val.invoked[Len(ret.val.invoked)] = "get_drive_info"

\* the order of the validation steps: required commands, admin privilege,
\* supported OS, architecture and device, disk layout, minimum drive size,
\* kernel file, initramfs file, boot free space, OS image and memory, balena
\* config
ValidationOrder ==
    <<"ensure_cmds", "is_admin", "os_name", "os_arch", "can_migrate", "disk_info",
      "min_disk_size", "kernel_file", "initrd_file", "boot_space", "os_image", "mem_info",
      "balena_cfg">>

\* C29: the steps try_init executed are a prefix of the fixed order, every
\* step but the last executed one passed, try_init returns Ok exactly when
\* all steps were executed and passed, and otherwise the last executed step
\* did not pass and the error returned is its error.
C29_FixedOrderShortCircuit ==
    Called("try_init") =>
        LET checks == ret.val.checks
            n == Len(checks)
        IN  /\ n >= 1
            /\ checks = SubSeq(ValidationOrder, 1, n)
            /\ \A i \in 1..(n - 1) : CheckOutcome(checks[i], call) = "ok"
            /\ ret.val.ok <=> (n = Len(ValidationOrder) /\ CheckOutcome(checks[n], call) = "ok")
            /\ ~ret.val.ok => CheckOutcome(checks[n], call) # "ok"
            /\ (~ret.val.ok /\ ~ret.val.panic) => ret.val.err = checks[n]

C29_Witness ==
    /\ Called("try_init")
    /\ call.cmds
    /\ call.admin = "no"
    /\ call.os_name = "Fedora 30"
    /\ call.os_arch = "MIPS"
    /\ ~ret.val.ok
    /\ ret.val.err = "is_admin"
    /\ ret.val.checks = <<"ensure_cmds", "is_admin">>

\* C30: try_init ends by returning Ok or Err on every host: it never ends in
\* one of its panic! branches.
C30_NoPanic ==
    Called("try_init") => ~ret.val.panic

\* try_init ends in panic! only at the space check of an EFI-booted host
\* whose /boot/efi did not resolve, and in get_disk_info on a size that is no
\* u64
PanicOnlyWithoutEfiPath ==
    (Called("try_init") /\ ret.val.panic) =>
        \/ ret.val.err = "boot_space" /\ call.efi_boot /\ call.efi = "none"
        \/ ret.val.err = "disk_info"

\* the file f under /boot is as it was before the run
Unmodified(f) ==
    /\ file_exists(boot, f) <=> file_exists(boot0, f)
    /\ file_exists(boot, f) => boot[f] = boot0[f]

\* the errors setup returns from "Finally write stuff" (lines 467-495)
FinalWriteErrors == {"config_create", "config_write", "cmdline_create", "cmdline_write"}

\* C31: when setup has failed before its final write phase, config.txt and
\* cmdline.txt are as they were before the run; and once either of them has
\* been written, both new contents have been computed from the pre-run files
\* and, where backups are due, both backups hold the pre-run contents.
C31_WritesOnlyInFinalPhase ==
    /\ (setup_res = "err" /\ err \notin FinalWriteErrors) =>
          Unmodified(RPI_CONFIG_TXT) /\ Unmodified(RPI_CMDLINE_TXT)
    /\ (written \cap {RPI_CONFIG_TXT, RPI_CMDLINE_TXT} # {}) =>
          /\ config_str = ConfigStr(boot0[RPI_CONFIG_TXT], balena_config, boot_type)
          /\ file_exists(boot0, RPI_CMDLINE_TXT)
          /\ \E ko \in KernelOpts : cmdline_str = CmdlineStr(boot0[RPI_CMDLINE_TXT], ko)
          /\ NeedConfigBackup(balena_config) =>
                /\ HasPreRunBackup(boot_cfg_bckup, RPI_CONFIG_TXT)
                /\ HasPreRunBackup(boot_cfg_bckup, RPI_CMDLINE_TXT)

C31_Witness ==
    /\ pc = "failed"
    /\ err \in {"cmdline_backup", "cmdline_read"}
    /\ file_exists(boot, ConfigBackupFile(system_time))
    /\ \E d \in AllDtbNames : d \in written

\* C32: setup on a boot manager whose bootmgr_path was never set returns a
\* NotFound error and leaves every file under /boot as it was.
C32_FreshSetupLeavesBootUnchanged ==
    (Called("setup") /\ ~call.bootmgr_path) =>
        ret.val.res = "NotFound" /\ ret.val.boot = call.boot

\* when setup returns NotFound for the missing bootmgr_path, the migration
\* kernel and initramfs are already under /boot
NotFoundAfterCopies ==
    (Called("setup") /\ ret.val.res = "NotFound") =>
        /\ ~call.bootmgr_path
        /\ ret.val.boot[RPI_MIG_KERNEL_NAME] = WorkContent(RPI_MIG_KERNEL_NAME)
        /\ ret.val.boot[RPI_MIG_INITRD_NAME] = WorkContent(RPI_MIG_INITRD_NAME)

\* the run started on the /boot an earlier run left
Rerun == boot0 = EarlierRunBoot

\* C33: in a run on the /boot an earlier run left, no backup file of the earlier
\* run is overwritten, and every DTB backup this run records holds the DTB's
\* content from before the first migration.
C33_BackupsSurviveReruns ==
    Rerun =>
        /\ \A f \in {DtbBackupFile(RPI4_64_DTB_FILES[1], 1), ConfigBackupFile(1),
                      CmdlineBackupFile(1)} : Unmodified(f)
        /\ \A i \in DOMAIN boot_cfg_bckup :
              (boot_cfg_bckup[i][1] \in AllDtbNames
                  /\ boot[boot_cfg_bckup[i][2]] # PartialContent)
              => boot[boot_cfg_bckup[i][2]] = OldContent(boot_cfg_bckup[i][1])

\* in such a run the earlier backups of config.txt and cmdline.txt are kept:
\* config.txt carries the marker, so neither file is backed up again
EarlierConfigBackupsKept ==
    Rerun => Unmodified(ConfigBackupFile(1)) /\ Unmodified(CmdlineBackupFile(1))

\* setup's list records a backup of cmdline.txt under cmdline.txt.<unix seconds>
CmdlineBackupRecorded ==
    \E i \in DOMAIN boot_cfg_bckup :
        boot_cfg_bckup[i] = <<RPI_CMDLINE_TXT, CmdlineBackupFile(system_time)>>

\* setup has passed its backup of cmdline.txt (line 393)
PastCmdlineBackup ==
    \/ pc \in {"cmdline_read", "set_boot_bckup", "config_create", "config_write",
               "cmdline_create", "cmdline_write"}
    \/ pc = "failed" /\ err \in {"cmdline_read"} \cup FinalWriteErrors
    \/ setup_res = "ok"

\* the config.txt the run found carried the balena-migrate marker
MarkerFound == is_balena_file(boot0[RPI_CONFIG_TXT])

\* C34 (as claimed): cmdline.txt is backed up exactly when config.txt is, that
\* is when config.txt had no marker, and whenever cmdline.txt has been
\* overwritten a recorded backup holds its pre-run content.
C34_CmdlineBackupWheneverOverwritten ==
    /\ PastCmdlineBackup =>
          /\ CmdlineBackupRecorded <=> ConfigBackupRecorded
          /\ CmdlineBackupRecorded <=> ~MarkerFound
    /\ RPI_CMDLINE_TXT \in written => HasPreRunBackup(boot_cfg_bckup, RPI_CMDLINE_TXT)

\* C34 (amended): cmdline.txt is backed up exactly when config.txt is, that is
\* when config.txt had no marker; when cmdline.txt has been overwritten, a
\* recorded backup holds its pre-run content if config.txt had no marker, and
\* no backup of it is recorded if config.txt had the marker.
C34_CmdlineBackupIffConfigBackup ==
    /\ PastCmdlineBackup =>
          /\ CmdlineBackupRecorded <=> ConfigBackupRecorded
          /\ CmdlineBackupRecorded <=> ~MarkerFound
    /\ RPI_CMDLINE_TXT \in written =>
          IF MarkerFound
          THEN \A i \in DOMAIN boot_cfg_bckup : boot_cfg_bckup[i][1] # RPI_CMDLINE_TXT
          ELSE HasPreRunBackup(boot_cfg_bckup, RPI_CMDLINE_TXT)

C34_Witness ==
    /\ RPI_CMDLINE_TXT \in written
    /\ CmdlineBackupRecorded
    /\ boot[RPI_CMDLINE_TXT] # boot0[RPI_CMDLINE_TXT]
    /\ boot[CmdlineBackupFile(system_time)] = boot0[RPI_CMDLINE_TXT]

\* nothing of what do_migrate does has happened: no setup, no descriptor, no
\* reboot, and the host's files are as they were
NothingMigrated ==
    /\ setup_res = "none"
    /\ written = {}
    /\ s2_writes = 0
    /\ ~rebooted
    /\ boot = boot0
    /\ stage2_cfg_file = stage2_cfg_file0

\* C35: in mode PRETEND migrate has passed every step of try_init and returns
\* Ok with nothing migrated; in mode AGENT it returns NotImpl with nothing
\* migrated; setup, write_stage2_cfg and the reboot happen in mode IMMEDIATE
\* only.
C35_OnlyImmediateMigrates ==
    /\ mode # "none" => ~check_failed
    /\ mode = "PRETEND" => pc = "done" /\ err = "none" /\ NothingMigrated
    /\ mode = "AGENT" => pc = "failed" /\ err = "NotImpl" /\ NothingMigrated
    /\ ~NothingMigrated => mode = "IMMEDIATE"

C35_Witness ==
    /\ mode = "PRETEND"
    /\ pc = "done"
    /\ bootmgr_path
    /\ file_exists(boot, RPI_CONFIG_TXT)
    /\ stage2_cfg_file0.exists

\* the descriptor write_stage2_cfg emits when mig_info.device_slug is slug
DescriptorWithSlug(slug) ==
    CfgStr([MigInfo("Raspi", <<>>) EXCEPT !.device_slug = <<slug>>])

\* C36: when try_init returns Ok, the slug in mig_info, the slug handed to the
\* check of the balena config and the device_slug the descriptor carries are
\* force_slug when that is configured and the slug of the detected device
\* otherwise; the device handler is the detected one whatever force_slug is.
C36_ForceSlugOverridesSlugOnly ==
    (Called("try_init") /\ ret.val.ok) =>
        LET slug == IF call.force_slug # "none" THEN call.force_slug ELSE ret.val.device
        IN  /\ ret.val.device_slug = slug
            /\ ret.val.cfg_check_slug = slug
            /\ from_config(DescriptorWithSlug(ret.val.device_slug)).cfg.device_slug
                  = <<slug>>
            /\ ret.val.device = try_init([call EXCEPT !.force_slug = "none"]).device
            /\ ret.val.device \in {"raspberrypi3", "beaglebone", "intel-nuc"}

C36_Witness ==
    /\ Called("try_init")
    /\ ret.val.ok
    /\ call.force_slug = "fincm3"
    /\ ret.val.device = "intel-nuc"
    /\ ret.val.cfg_check_slug = "fincm3"

\* try_init got as far as get_disk_info, and lsblk printed its data line
DiskLineRead ==
    /\ Called("try_init")
    /\ Len(ret.val.checks) >= CheckIdx("disk_info")
    /\ call.root \in Drives /\ call.boot = call.root
    /\ call.efi_boot => call.efi \in {"none", call.root}
    /\ call.lsblk.res = "exit0"
    /\ Len(call.lsblk.stdout) >= 2

\* the data line gives no size: it does not match LSBLK_REGEX, or its digits
\* are no u64
NoSizeParsed(line) ==
    \/ ~LsblkCaptures(line).matched
    \/ ParseU64Fails(LsblkCaptures(line).size)

\* try_init returned the error of its MIN_DISK_SIZE test
DriveTooSmall == ~ret.val.ok /\ ~ret.val.panic /\ ret.val.err = "min_disk_size"

\* C37: try_init fails with the drive-too-small error whenever the size lsblk
\* prints is below 2 GiB, and whenever the data line cannot be parsed:
\* get_disk_info then returns Ok with drive_size 0.
C37_SmallOrUnparsedDriveFails ==
    DiskLineRead =>
        LET line == call.lsblk.stdout[2] IN
        /\ (~NoSizeParsed(line) /\ TooSmallDrive(ParseU64(LsblkCaptures(line).size)))
              => DriveTooSmall
        /\ NoSizeParsed(line) =>
              /\ get_disk_info(call).ok
              /\ get_disk_info(call).drive_size = <<"0">>
              /\ DriveTooSmall

\* the same holds of the sizes below 2 GiB and of the lines that do not match
\* LSBLK_REGEX; a size of 2 GiB or more passes the test
SmallOrUnmatchedDriveFails ==
    DiskLineRead =>
        LET line == call.lsblk.stdout[2] IN
        /\ (~NoSizeParsed(line) /\ TooSmallDrive(ParseU64(LsblkCaptures(line).size)))
              => DriveTooSmall
        /\ ~LsblkCaptures(line).matched =>
              /\ get_disk_info(call).ok
              /\ get_disk_info(call).drive_size = <<"0">>
              /\ DriveTooSmall
        /\ (~NoSizeParsed(line) /\ ~TooSmallDrive(ParseU64(LsblkCaptures(line).size)))
              => ~DriveTooSmall

\* a size above u64::MAX ends get_disk_info, and with it try_init, in the panic
\* of unwrap
OversizedLinePanics ==
    (DiskLineRead /\ LsblkCaptures(call.lsblk.stdout[2]).matched
                  /\ ParseU64Fails(LsblkCaptures(call.lsblk.stdout[2]).size))
    => ret.val.panic /\ ret.val.err = "disk_info"

\* the keys the descriptor cannot be read without
RequiredKeys ==
    {"efi_boot: ", "root_device: ", "boot_device: ", "device_slug: ", "balena_image: ",
     "balena_config: ", "work_dir: "}

\* the mode a fail_mode text names, the default when it names none
NamedFailMode(text) ==
    IF \E m \in FailModes : text \in {<<m>>, Quoted(<<m>>)}
    THEN CHOOSE m \in FailModes : text \in {<<m>>, Quoted(<<m>>)}
    ELSE "Reboot"

\* C38: from_config never fails because of fail_mode: a file with one
\* document and every required key yields the written descriptor whatever the
\* fail_mode line holds, whatever the order of the keys and with or without
\* an unknown key, and the descriptor carries the default FailMode when
\* fail_mode is missing, is no string or names no mode.  A file with no
\* document or with two, and a file without one of the required keys, yields
\* no descriptor.
C38_FailModeNeverFailsFromConfig ==
    Called("from_config") =>
        LET v == call.v
        IN  /\ v.docs \in {1, 3} /\ v.change = "none" =>
                   /\ ret.val.ok
                   /\ ret.val.cfg =
                          [WrittenDescriptor EXCEPT !.fail_mode = NamedFailMode(v.fail_mode.text)]
            /\ v.docs \in {0, 2} => ~ret.val.ok /\ ret.val.err = "InvParam"
            /\ v.change = "dropped" /\ v.key \in RequiredKeys => ~ret.val.ok

\* a reordered file with an unknown key and a fail_mode that names no mode is
\* read with the default mode
C38_Witness ==
    /\ Called("from_config")
    /\ call.v.fail_mode = [present |-> TRUE, text |-> Quoted(<<"Foo">>)]
    /\ call.v.reversed /\ call.v.unknown /\ call.v.docs = 1 /\ call.v.change = "none"
    /\ ret.val.ok
    /\ ret.val.cfg.fail_mode = FailModeDefault
    /\ ret.val.cfg.work_dir = WrittenDescriptor.work_dir

\* an absent required key ends in the panic of unwrap(), a value of another
\* type in the error that `?` returns
AbsentKeyPanics ==
    Called("from_config") /\ call.v.docs = 1 =>
        /\ call.v.change = "dropped" => ret.val.panic /\ ret.val.err = call.v.key
        /\ call.v.change = "retyped" => ~ret.val.ok /\ ~ret.val.panic /\ ret.val.err = call.v.key

=============================================================================
